---- MODULE Spec2Model ----
(***************************************************************************)
(* Ingestion and deletion of the recording / word / phoneme hierarchy of   *)
(* the acoustic-feature-analysis repository (src/src/speech_importer.py,   *)
(* src/src/database.py, src/src/textgrid_parser.py), the feature and vowel *)
(* queries of the database layer, the selection filter of the main window  *)
(* (src/src/ui/main_window.py) and the similarity analysis                 *)
(* (src/src/similarity_analyzer.py).                                       *)
(*                                                                         *)
(* Time is counted in raw units; Tick raw units make 1e-6 s, the precision *)
(* of round(x, 6).  Feature frames lie on a grid of FrameStep raw units.   *)
(* Feature values are integers in units of 1e-6.                           *)
(***************************************************************************)
EXTENDS Integers, Sequences, FiniteSets, TLC

\* ------------------------------------------------------------------ bounds
MaxT == 4
MaxIntervals == 2
MaxFrames == 2
MaxCalls == 3
MaxIds == 2
MaxSliceFrames == 21
MaxShape == 11
MaxRows == 4
MaxPaths == 4
Tick == 2

\* -------------------------------------------------------- program constants
\* the null parent / missing value (Python None); ObjectIds start above it
None == 0
\* aggregate_features: iloc[::5] and iloc[::20]
WordStride == 5
RecordingStride == 20
\* config.USE_MONGO_MOCK
USE_MONGO_MOCK == TRUE
\* EXCLUDED_LABELS
EXCLUDED_LABELS == {"<sil>", "SIL", ".sil", ".noise", ""}

RecIds == {"r1", "r2"}
Callers == {1, 2}
Levels == {"phoneme", "word", "recording"}

VARIABLES
    mock,        \* config.USE_MONGO_MOCK: the store is the in-memory mock
    files,       \* the (TextGrid, audio) pair on disk under each base name
    recordings,  \* the three collections, in insertion order
    words,
    phonemes,
    nextId,      \* the next ObjectId the driver hands out
    pc,          \* where each caller of process_single_recording stands
    cur,         \* that call's locals and what it did
    del,         \* the running / last delete_recordings call
    opsLeft,     \* calls still to be made
    raced,       \* history: the ids whose existence check overlapped another call
    probe        \* a slice_features call on its own: arguments and result

store == <<recordings, words, phonemes>>
vars == <<mock, files, recordings, words, phonemes, nextId, pc, cur, del, opsLeft, raced, probe>>

\* period of the feature provider's frame grid, a whole number of 1e-6 s
FrameStep == 2 * Tick

\* ----------------------------------------------------------------- helpers
RECURSIVE SumSeq(_)
SumSeq(s) == IF s = <<>> THEN 0 ELSE s[1] + SumSeq(Tail(s))

RECURSIVE MaxSeq(_)
MaxSeq(s) == IF Len(s) = 1 THEN s[1]
             ELSE LET m == MaxSeq(Tail(s)) IN IF s[1] >= m THEN s[1] ELSE m

Map(s, Op(_)) == [i \in 1..Len(s) |-> Op(s[i])]

\* Python round(): nearest multiple of unit, ties to the even multiple
RoundTo(x, unit) ==
    LET q == x \div unit
        r == x % unit
    IN  IF 2 * r < unit THEN q * unit
        ELSE IF 2 * r > unit THEN (q + 1) * unit
        ELSE IF q % 2 = 0 THEN q * unit ELSE (q + 1) * unit

\* round(t, 6) of a time given in raw units
Round6(t) == RoundTo(t, Tick)

\* round(sum / n, 6) of values given in units of 1e-6
RoundMean(sum, n) ==
    LET q == sum \div n
        r == sum % n
    IN  IF 2 * r < n THEN q
        ELSE IF 2 * r > n THEN q + 1
        ELSE IF q % 2 = 0 THEN q ELSE q + 1

\* ---------------------------------------------------- the feature provider
\* OpenSmileFeatures.process_file: n frames indexed by frame start time, one
\* feature column f; frame k starts at k * FrameStep and carries value k + 1
FrameAt(k) == [t |-> k * FrameStep, f |-> k + 1]
Features(n) == [k \in 1..n |-> FrameAt(k - 1)]

\* ---------------------------------------------------- the interval provider
\* A tier as praatio returns it with includeEmptyIntervals=True: labelled
\* intervals in time order, not overlapping, the gaps between them filled
\* with empty-label intervals.
Interval(text, s, e) == [text |-> text, start |-> s, end |-> e]

Spans == {se \in (0..MaxT) \X (0..MaxT) : se[1] < se[2]}

\* the tiers of at most MaxIntervals labelled intervals, interval i named names[i]
LabelledTiers(names) ==
    UNION {
        { [i \in 1..k |-> Interval(names[i], ss[i][1], ss[i][2])] :
            ss \in {x \in [1..k -> Spans] :
                      \A i \in 1..(k - 1) : x[i][2] <= x[i + 1][1]} }
        : k \in 0..MaxIntervals
    }

RECURSIVE FillGaps(_, _)
FillGaps(tier, from) ==
    IF tier = <<>> THEN <<>>
    ELSE LET h == Head(tier)
             rest == FillGaps(Tail(tier), h.end)
         IN  IF h.start > from
             THEN <<Interval("", from, h.start), h>> \o rest
             ELSE <<h>> \o rest

WordNames == [i \in 1..(MaxIntervals + 1) |-> <<"w1", "w2", "w3", "w4">>[i]]
PhonemeNames == [i \in 1..(MaxIntervals + 1) |-> <<"p1", "p2", "p3", "p4">>[i]]

\* ------------------------------------------------------------- the importer
\* The characters of the labels used; a run of characters that are no
\* whitespace and play no part of their own stands as one element.
Chars(text) ==
    CASE text = "" -> <<>>
      [] text = "p" -> <<"p">>
      [] text = "i" -> <<"i">>
      [] text = "k" -> <<"k">>
      [] text = "I" -> <<"I">>
      [] text = "t2" -> <<"t", "2">>
      [] text = "E:" -> <<"E", ":">>
      [] text = "e:" -> <<"e", ":">>
      [] text = "  " -> <<" ", " ">>
      [] text = " SIL " -> <<" ", "SIL", " ">>
      [] text = "a " -> <<"a", " ">>
      [] text = "\t.noise" -> <<"\t", ".noise">>
      [] text = "S IL" -> <<"S", " ", "IL">>
      [] text = "R2 " -> <<"R2", " ">>
      [] OTHER -> <<text>>

\* the labels of more than one element, and the string of a character run
Spelled == {"t2", "E:", "e:", "  ", " SIL ", "a ", "\t.noise", "S IL", "R2 "}
Text(chars) ==
    IF chars = <<>> THEN ""
    ELSE IF Len(chars) = 1 THEN chars[1]
    ELSE CHOOSE text \in Spelled : Chars(text) = chars

Whitespace == {" ", "\t"}

\* str.strip(): leading and trailing whitespace goes, inner whitespace stays
RECURSIVE StripLeft(_)
StripLeft(chars) ==
    IF chars # <<>> /\ Head(chars) \in Whitespace THEN StripLeft(Tail(chars))
    ELSE chars

RECURSIVE StripRight(_)
StripRight(chars) ==
    IF chars # <<>> /\ chars[Len(chars)] \in Whitespace
    THEN StripRight(SubSeq(chars, 1, Len(chars) - 1))
    ELSE chars

strip(text) == Text(StripRight(StripLeft(Chars(text))))

\* TextGridParser.parse_textgrid on a readable file: both tiers, fields
\* text (the label, stripped) / start / end (duration = end - start is not
\* read by the importer)
Entries(tier) ==
    Map(FillGaps(tier, 0), LAMBDA entry : [entry EXCEPT !.text = strip(entry.text)])
parse_textgrid(file) ==
    [words |-> Entries(file.words), phonemes |-> Entries(file.phonemes)]

\* clean_intervals with a fault: the label is compared as it stands
clean_intervals_unstripped(intervals) ==
    SelectSeq(intervals, LAMBDA iv : iv.text \notin EXCLUDED_LABELS)

\* SpeechImporter.clean_intervals: a new list of the intervals kept
clean_intervals(intervals) ==
    SelectSeq(intervals, LAMBDA iv : strip(iv.text) \notin EXCLUDED_LABELS)

\* Stride with a fault: the last, partial group of k rows is dropped
StrideFloor(rows, k) ==
    [i \in 1..(Len(rows) \div k) |-> rows[(i - 1) * k + 1]]

\* DataFrame.iloc[::k]
Stride(rows, k) ==
    [i \in 1..((Len(rows) + k - 1) \div k) |-> rows[(i - 1) * k + 1]]

\* SpeechImporter.aggregate_features
aggregate_features(interval_data, level) ==
    IF level = "phoneme" THEN interval_data
    ELSE IF level = "word" THEN Stride(interval_data, WordStride)
    ELSE Stride(interval_data, RecordingStride)

\* InInterval with a fault: the end bound is exclusive
InIntervalHalfOpen(fr, start, end) == fr.t >= start /\ fr.t < end

\* features[(features.index >= start) & (features.index <= end)]
InInterval(fr, start, end) == fr.t >= start /\ fr.t <= end

\* SliceRows with a fault: the rows are not cut at the end of the interval
SliceRowsOpenEnded(features, start, end) ==
    SelectSeq(features, LAMBDA fr : fr.t >= start)

SliceRows(features, start, end) ==
    SelectSeq(features, LAMBDA fr : InInterval(fr, start, end))

\* one interval's entry of slice_features' result
SliceEntry(interval_data, interval, level) ==
    [ text |-> interval.text,
      start |-> Round6(interval.start),
      end |-> Round6(interval.end),
      mean |-> RoundMean(SumSeq(Map(interval_data, LAMBDA fr : fr.f)),
                         Len(interval_data)),
      frame_values |-> Map(aggregate_features(interval_data, level),
                           LAMBDA fr : [t |-> Round6(fr.t), f |-> fr.f]) ]

\* SpeechImporter.slice_features: intervals with an empty slice are skipped
RECURSIVE slice_features(_, _, _)
slice_features(features, intervals, level) ==
    IF intervals = <<>> THEN <<>>
    ELSE LET iv == Head(intervals)
             interval_data == SliceRows(features, iv.start, iv.end)
             rest == slice_features(features, Tail(intervals), level)
         IN  IF interval_data = <<>> THEN rest
             ELSE <<SliceEntry(interval_data, iv, level)>> \o rest

\* the documents insert_data builds; _id is set by the store on insertion
Doc(file_name, parent, text, start, end, feat) ==
    [ _id |-> None, recording_id |-> file_name, parent_id |-> parent,
      text |-> text, start |-> start, end |-> end, duration |-> end - start,
      mean |-> feat.mean, frame_values |-> feat.frame_values ]

\* recording_duration with a fault: the end of the first word
recording_duration_first(words_) == words_[1].end

\* max(word["end"] for word in words)
recording_duration(words_) == MaxSeq(Map(words_, LAMBDA w : w.end))

RecordingFeatures(features, words_) ==
    slice_features(features,
                   <<Interval("recording", 0, recording_duration(words_))>>,
                   "recording")

RecordingDocs(file_name, features, words_) ==
    <<Doc(file_name, None, "recording", 0, recording_duration(words_),
          RecordingFeatures(features, words_)[1])>>

WordDocs(file_name, features, words_) ==
    Map(slice_features(features, words_, "word"),
        LAMBDA wf : Doc(file_name, None, wf.text, wf.start, wf.end, wf))

\* Contains with a fault: the word's end bound is inclusive
ContainsClosed(word_doc, phoneme_feature) ==
    word_doc.start <= phoneme_feature.start /\ phoneme_feature.start <= word_doc.end

\* word_doc["start"] <= phoneme_feature["start"] < word_doc["end"]
Contains(word_doc, phoneme_feature) ==
    word_doc.start <= phoneme_feature.start /\ phoneme_feature.start < word_doc.end

\* next((word_doc["_id"] for word_doc in word_docs if ...), None)
ParentOf(word_docs, phoneme_feature) ==
    LET hits == SelectSeq(word_docs, LAMBDA wd : Contains(wd, phoneme_feature))
    IN  IF hits = <<>> THEN None ELSE hits[1]._id

PhonemeDocs(file_name, features, phonemes_, word_docs) ==
    Map(slice_features(features, phonemes_, "phoneme"),
        LAMBDA pf : Doc(file_name, ParentOf(word_docs, pf),
                        pf.text, pf.start, pf.end, pf))

\* ------------------------------------------------------------------ the store
\* insert_many: the driver gives each document a fresh ObjectId
WithIds(docs, first) == [i \in 1..Len(docs) |-> [docs[i] EXCEPT !._id = first + i - 1]]

HasRecording(col, recording_id) ==
    \E i \in 1..Len(col) : col[i].recording_id = recording_id

CountFor(col, recording_id) ==
    Cardinality({i \in 1..Len(col) : col[i].recording_id = recording_id})

\* Remaining with a fault: the query matches the ids not listed
RemainingInverted(col, ids) == SelectSeq(col, LAMBDA d : d.recording_id \in ids)

\* delete_many(query): what stays, and how many go
Remaining(col, ids) == SelectSeq(col, LAMBDA d : d.recording_id \notin ids)
Matching(col, ids) == Len(col) - Len(Remaining(col, ids))

\* whether a store operation may raise PyMongoError: never with the mock
FaultChoices == IF mock THEN {FALSE} ELSE BOOLEAN

\* recording_exists with a fault: the lookup goes to the words collection; the
\* lookup never finds anything
recording_exists_in_words(recording_id, fault) ==
    IF fault THEN FALSE ELSE HasRecording(words, recording_id)
recording_exists_never(recording_id, fault) == FALSE

\* Database.recording_exists: a failed lookup is logged and answered False
recording_exists(recording_id, fault) ==
    IF fault THEN FALSE ELSE HasRecording(recordings, recording_id)

\* Database.insert_data past its argument checks: insert_many, a
\* PyMongoError is logged and swallowed
InsertMany(col, docs, fault) == IF fault THEN col ELSE col \o docs

\* --------------------------------------------------------------- files on disk
File(tg, w, p, audio, n) ==
    [tg |-> tg, words |-> w, phonemes |-> p, audio |-> audio, nframes |-> n]

\* every readable pair within the bounds
AllFiles ==
    { File("ok", w, p, "ok", n) :
        w \in LabelledTiers(WordNames), p \in LabelledTiers(PhonemeNames),
        n \in 0..MaxFrames }

W(i, s, e) == Interval(WordNames[i], s, e)
P(i, s, e) == Interval(PhonemeNames[i], s, e)

\* one pair per way process_single_recording can end
GoodFile == File("ok", <<W(1, 0, MaxT)>>, <<P(1, 0, 1), P(2, 1, MaxT)>>, "ok", MaxFrames)
LifecycleFiles ==
    { GoodFile,
      [GoodFile EXCEPT !.tg = "ValueError"],
      [GoodFile EXCEPT !.tg = "OtherError"],
      [GoodFile EXCEPT !.audio = "fail"],
      [GoodFile EXCEPT !.words = <<>>],
      [GoodFile EXCEPT !.nframes = 0],
      [GoodFile EXCEPT !.words = <<W(1, 1, FrameStep - 1)>>],
      [GoodFile EXCEPT !.phonemes = <<P(1, 1, FrameStep - 1)>>] }

\* the locals of one process_single_recording call
CleanWords(id) == clean_intervals(parse_textgrid(files[id]).words)
CleanPhonemes(id) == clean_intervals(parse_textgrid(files[id]).phonemes)
FileFeatures(id) == Features(files[id].nframes)

IdleCall == [id |-> "", word_docs |-> <<>>, parsed |-> FALSE, extracted |-> FALSE,
             result |-> "none"]
EmptyMap == [x \in {} |-> 0]
IdleDelete == [pc |-> "idle", ids |-> <<>>, results |-> EmptyMap, outcome |-> "none",
               report |-> EmptyMap, pre |-> <<>>]

\* ------------------------------------------------------------------- Init
InitCommon ==
    /\ recordings = <<>> /\ words = <<>> /\ phonemes = <<>>
    /\ nextId = None + 1
    /\ pc = [c \in Callers |-> "idle"]
    /\ cur = [c \in Callers |-> IdleCall]
    /\ del = IdleDelete
    /\ raced = {}

NoProbe == [features |-> <<>>, intervals |-> <<>>, level |-> "phoneme",
            called |-> FALSE, out |-> <<>>]

Init ==
    /\ InitCommon
    /\ probe = NoProbe
    /\ mock = USE_MONGO_MOCK
    /\ files \in [RecIds -> LifecycleFiles]
    /\ opsLeft = MaxCalls

\* ------------------------------------------- process_single_recording, by step
Return(c, result) ==
    /\ pc' = [pc EXCEPT ![c] = "idle"]
    /\ cur' = [cur EXCEPT ![c].result = result, ![c].word_docs = <<>>]

Goto(c, label) == pc' = [pc EXCEPT ![c] = label]

\* the call is made
Begin(c, id) ==
    /\ pc[c] = "idle" /\ del.pc = "idle" /\ opsLeft > 0
    /\ opsLeft' = opsLeft - 1
    /\ pc' = [pc EXCEPT ![c] = "exists"]
    /\ cur' = [cur EXCEPT ![c] = [IdleCall EXCEPT !.id = id]]
    /\ UNCHANGED <<mock, files, raced, probe, store, nextId, del>>

\* another call for the same id stands between its own existence check and
\* its insert into recordings
InWindow(c) ==
    \E d \in Callers \ {c} :
        cur[d].id = cur[c].id /\ pc[d] \in {"parse", "extract", "ins_rec"}

\* if self.db.recording_exists(file_name): return
CheckExists(c) ==
    /\ pc[c] = "exists"
    /\ \E fault \in FaultChoices :
         IF recording_exists(cur[c].id, fault)
         THEN Return(c, "exists") /\ UNCHANGED raced
         ELSE /\ Goto(c, "parse")
              /\ raced' = IF InWindow(c) THEN raced \cup {cur[c].id} ELSE raced
              /\ UNCHANGED cur
    /\ UNCHANGED <<mock, files, probe, store, nextId, del, opsLeft>>

\* MissingTier with a fault: only the words tier is looked at
MissingTierWordsOnly(words_, phonemes_) == words_ = <<>>

\* if not words or not phonemes
MissingTier(words_, phonemes_) == words_ = <<>> \/ phonemes_ = <<>>

\* parse_textgrid, clean_intervals, the missing-tier return
Parse(c) ==
    /\ pc[c] = "parse"
    /\ LET id == cur[c].id
           done(result) ==
               /\ pc' = [pc EXCEPT ![c] = "idle"]
               /\ cur' = [cur EXCEPT ![c].parsed = TRUE, ![c].result = result]
       IN  IF files[id].tg = "ValueError" THEN done("parse_error")
           ELSE IF files[id].tg # "ok" THEN done("raised")
           ELSE IF MissingTier(CleanWords(id), CleanPhonemes(id))
                THEN done("missing_tier")
           ELSE /\ Goto(c, "extract")
                /\ cur' = [cur EXCEPT ![c].parsed = TRUE]
    /\ UNCHANGED <<mock, files, raced, probe, store, nextId, del, opsLeft>>

\* features = self.feature_extractor.process_file(audio_path)
Extract(c) ==
    /\ pc[c] = "extract"
    /\ IF files[cur[c].id].audio = "ok"
       THEN /\ Goto(c, "ins_rec")
            /\ cur' = [cur EXCEPT ![c].extracted = TRUE]
       ELSE /\ pc' = [pc EXCEPT ![c] = "idle"]
            /\ cur' = [cur EXCEPT ![c].extracted = TRUE, ![c].result = "error"]
    /\ UNCHANGED <<mock, files, raced, probe, store, nextId, del, opsLeft>>

\* CaughtError with a fault: the exception leaves process_single_recording
Propagated == "raised"

\* except Exception: the error is logged and the call returns
CaughtError == "error"

\* insert_data up to self.db.insert_data("recordings", recording_docs);
\* recording_features[0] of an empty slice raises IndexError
InsertRecording(c) ==
    /\ pc[c] = "ins_rec"
    /\ LET id == cur[c].id IN
       IF RecordingFeatures(FileFeatures(id), CleanWords(id)) = <<>>
       THEN Return(c, CaughtError) /\ UNCHANGED <<store, nextId>>
       ELSE \E fault \in FaultChoices :
              LET docs == WithIds(RecordingDocs(id, FileFeatures(id), CleanWords(id)),
                                  nextId)
              IN  /\ recordings' = InsertMany(recordings, docs, fault)
                  /\ nextId' = nextId + Len(docs)
                  /\ Goto(c, "ins_words")
                  /\ UNCHANGED <<cur, words, phonemes>>
    /\ UNCHANGED <<mock, files, raced, probe, del, opsLeft>>

\* ... up to self.db.insert_data("words", word_docs); an empty list is
\* rejected with ValueError
InsertWords(c) ==
    /\ pc[c] = "ins_words"
    /\ LET id == cur[c].id
           docs == WithIds(WordDocs(id, FileFeatures(id), CleanWords(id)), nextId)
       IN  IF docs = <<>>
           THEN Return(c, CaughtError) /\ UNCHANGED <<store, nextId>>
           ELSE \E fault \in FaultChoices :
                  /\ words' = InsertMany(words, docs, fault)
                  /\ nextId' = nextId + Len(docs)
                  /\ Goto(c, "ins_ph")
                  /\ cur' = [cur EXCEPT ![c].word_docs = docs]
                  /\ UNCHANGED <<recordings, phonemes>>
    /\ UNCHANGED <<mock, files, raced, probe, del, opsLeft>>

\* ... up to self.db.insert_data("phonemes", phoneme_docs)
InsertPhonemes(c) ==
    /\ pc[c] = "ins_ph"
    /\ LET id == cur[c].id
           docs == WithIds(PhonemeDocs(id, FileFeatures(id), CleanPhonemes(id),
                                       cur[c].word_docs), nextId)
       IN  IF docs = <<>>
           THEN Return(c, CaughtError) /\ UNCHANGED <<store, nextId>>
           ELSE \E fault \in FaultChoices :
                  /\ phonemes' = InsertMany(phonemes, docs, fault)
                  /\ nextId' = nextId + Len(docs)
                  /\ Return(c, "processed")
                  /\ UNCHANGED <<recordings, words>>
    /\ UNCHANGED <<mock, files, raced, probe, del, opsLeft>>

AllIdle == (\A c \in Callers : pc[c] = "idle") /\ del.pc = "idle"

\* ------------------------------------------------ delete_recordings, by step
\* an element of the argument that is not a str
NonString == "<not a str>"

RECURSIVE SeqsUpTo(_, _)
SeqsUpTo(S, n) ==
    IF n = 0 THEN {<<>>}
    ELSE LET shorter == SeqsUpTo(S, n - 1)
         IN  shorter \cup {Append(q, x) : q \in {r \in shorter : Len(r) = n - 1}, x \in S}

\* the arguments tried: something that is no list, and the lists of at most
\* MaxIds elements
DeleteArgs ==
    {[isList |-> FALSE, items |-> <<>>]} \cup
    {[isList |-> TRUE, items |-> q] : q \in SeqsUpTo(RecIds \cup {NonString}, MaxIds)}

Range(q) == {q[i] : i \in 1..Len(q)}

\* the order of the collections dict: phonemes, words, recordings
DeleteOrder == <<"phonemes", "words", "recordings">>
Collection(name) ==
    IF name = "phonemes" THEN phonemes
    ELSE IF name = "words" THEN words ELSE recordings

\* the call, its argument checks and the empty-list return
DeleteBegin(arg) ==
    /\ AllIdle /\ opsLeft > 0
    /\ opsLeft' = opsLeft - 1
    /\ LET ended(outcome) ==
               del' = [IdleDelete EXCEPT !.ids = arg.items, !.outcome = outcome,
                                         !.pre = store]
       IN  IF ~arg.isList THEN ended("TypeError")
           ELSE IF arg.items = <<>> THEN ended("message")
           ELSE IF NonString \in Range(arg.items) THEN ended("ValueError")
           ELSE del' = [IdleDelete EXCEPT !.pc = DeleteOrder[1], !.ids = arg.items,
                                          !.pre = store]
    /\ UNCHANGED <<mock, files, raced, probe, store, nextId, pc, cur>>

\* one turn of the loop: delete_many on one collection; a PyMongoError is
\* re-raised as RuntimeError.  del.results is the local deletion_results (it
\* stays as it stood at the raise), del.report what the caller is handed.
DeleteStep ==
    /\ del.pc # "idle"
    /\ \E fault \in FaultChoices :
         LET name == del.pc
             ids == Range(del.ids)
             count == Matching(Collection(name), ids)
             results == [n \in DOMAIN del.results \cup {name} |->
                            IF n = name THEN count ELSE del.results[n]]
             last == name = DeleteOrder[Len(DeleteOrder)]
             following == CHOOSE i \in 1..Len(DeleteOrder) : DeleteOrder[i] = name
         IN  IF fault
             THEN /\ del' = [del EXCEPT !.pc = "idle", !.outcome = "RuntimeError"]
                  /\ UNCHANGED store
             ELSE /\ phonemes' = IF name = "phonemes" THEN Remaining(phonemes, ids)
                                 ELSE phonemes
                  /\ words' = IF name = "words" THEN Remaining(words, ids) ELSE words
                  /\ recordings' = IF name = "recordings" THEN Remaining(recordings, ids)
                                   ELSE recordings
                  /\ del' = IF last
                            THEN [del EXCEPT !.pc = "idle", !.outcome = "returned",
                                             !.report = results, !.results = EmptyMap]
                            ELSE [del EXCEPT !.pc = DeleteOrder[following + 1],
                                             !.results = results]
    /\ UNCHANGED <<mock, files, raced, probe, nextId, pc, cur, opsLeft>>

\* ------------------------------------------------------------ specifications
\* one caller, one operation at a time, the store as configured
Next ==
    \/ \E id \in RecIds : AllIdle /\ Begin(1, id)
    \/ CheckExists(1)
    \/ Parse(1)
    \/ Extract(1)
    \/ InsertRecording(1)
    \/ InsertWords(1)
    \/ InsertPhonemes(1)
    \/ \E arg \in DeleteArgs : DeleteBegin(arg)
    \/ DeleteStep

Spec == Init /\ [][Next]_vars

\* the store of the other configuration (USE_MONGO_MOCK = False): its
\* operations may raise PyMongoError
InitMongo ==
    /\ InitCommon
    /\ probe = NoProbe
    /\ mock = FALSE
    /\ files \in [RecIds -> LifecycleFiles]
    /\ opsLeft = MaxCalls

SpecMongo == InitMongo /\ [][Next]_vars

\* two callers of process_single_recording, interleaved at the store operations
Ingest(c) ==
    \/ \E id \in RecIds : Begin(c, id)
    \/ CheckExists(c)
    \/ Parse(c)
    \/ Extract(c)
    \/ InsertRecording(c)
    \/ InsertWords(c)
    \/ InsertPhonemes(c)

NextConc == \E c \in Callers : Ingest(c)

SpecConc == Init /\ [][NextConc]_vars

\* one ingestion of one pair, the pair ranging over every readable pair
\* within the bounds
InitIngest ==
    /\ InitCommon
    /\ probe = NoProbe
    /\ mock = USE_MONGO_MOCK
    /\ files \in {[id \in RecIds |-> IF id = "r1" THEN f ELSE GoodFile] : f \in AllFiles}
    /\ opsLeft = 1

NextIngest ==
    \/ Begin(1, "r1")
    \/ CheckExists(1)
    \/ Parse(1)
    \/ Extract(1)
    \/ InsertRecording(1)
    \/ InsertWords(1)
    \/ InsertPhonemes(1)

SpecIngest == InitIngest /\ [][NextIngest]_vars

\* slice_features on its own: one interval over a long feature matrix, or
\* two intervals sharing a boundary over a short one, at each level
LongSpans ==
    {se \in (0..FrameStep) \X (0..(MaxSliceFrames * FrameStep)) : se[1] < se[2]}
ShortT == (MaxFrames + 1) * FrameStep
AdjacentSpans ==
    {sme \in (0..ShortT) \X (0..ShortT) \X (0..ShortT) : sme[1] < sme[2] /\ sme[2] < sme[3]}

ProbeInputs ==
    { [features |-> Features(n), intervals |-> <<Interval("a", se[1], se[2])>>,
       level |-> level, called |-> FALSE, out |-> <<>>] :
        n \in (0..MaxFrames) \cup {MaxSliceFrames}, se \in LongSpans, level \in Levels }
    \cup
    { [features |-> Features(n),
       intervals |-> <<Interval("a", sme[1], sme[2]), Interval("b", sme[2], sme[3])>>,
       level |-> level, called |-> FALSE, out |-> <<>>] :
        n \in 0..(MaxFrames + 1), sme \in AdjacentSpans, level \in Levels }

InitSlice ==
    /\ InitCommon
    /\ mock = USE_MONGO_MOCK
    /\ files = [id \in RecIds |-> GoodFile]
    /\ opsLeft = 0
    /\ probe \in ProbeInputs

Slice ==
    /\ ~probe.called
    /\ probe' = [probe EXCEPT !.called = TRUE,
                              !.out = slice_features(probe.features, probe.intervals,
                                                     probe.level)]
    /\ UNCHANGED <<mock, files, raced, store, nextId, pc, cur, del, opsLeft>>

SpecSlice == InitSlice /\ [][Slice]_vars

\* ------------------------------------------------------------ the query layer
\* the result of the last query call: which operation, its arguments, what
\* it returned, and the collections as they stood at the call (kept in probe)
NoQuery == [op |-> "none", ids |-> <<>>, arg |-> "", out |-> EmptyMap, at |-> <<>>]

\* an analysis level get_features_for_recordings rejects
InvalidLevel == "sentence"
QueryLevels == Levels \cup {InvalidLevel}

CollectionOf(analysis_level) ==
    IF analysis_level = "recording" THEN recordings
    ELSE IF analysis_level = "word" THEN words ELSE phonemes

\* collection.find({"recording_id": recording_id}), in insertion order
Find(col, recording_id) == SelectSeq(col, LAMBDA d : d.recording_id = recording_id)

\* The loop over recording_ids of get_features_for_recordings.  For an id
\* with documents at the level and a recordings document, the first turn of
\* the inner loop evaluates full_frame_values["timestamps"]; frame_values is
\* stored as the list of frame records slice_features builds
\* (to_dict(orient='records')), and a list subscripted by a str raises
\* TypeError.  Ids without documents, or without a recordings document, are
\* passed over.  features[recording_id] is assigned only after the inner loop.
RECURSIVE FetchLoop(_, _, _)
FetchLoop(recording_ids, analysis_level, features) ==
    IF recording_ids = <<>> THEN [raised |-> FALSE, features |-> features]
    ELSE LET recording_id == Head(recording_ids)
             features_list == Find(CollectionOf(analysis_level), recording_id)
             recording_doc == Find(recordings, recording_id)
         IN  IF features_list = <<>> \/ recording_doc = <<>>
             THEN FetchLoop(Tail(recording_ids), analysis_level, features)
             ELSE [raised |-> TRUE, features |-> features]

\* Database.get_features_for_recordings: an invalid level returns the empty
\* mapping; any exception is logged and answered with {}
get_features_for_recordings(recording_ids, analysis_level) ==
    IF analysis_level \notin Levels THEN EmptyMap
    ELSE LET r == FetchLoop(recording_ids, analysis_level, EmptyMap)
         IN  IF r.raised THEN EmptyMap ELSE r.features

\* --- get_vowels
\* str(ObjectId) as the UI passes it, and a string that is no ObjectId
IdString(oid) == [hex |-> TRUE, oid |-> oid]
BadIdString == [hex |-> FALSE, oid |-> None]

\* the loop over ids: ObjectId(id_str), InvalidId skips the string
ConvertIds(ids) ==
    Map(SelectSeq(ids, LAMBDA id_str : id_str.hex), LAMBDA id_str : id_str.oid)

\* str.lower() on the phoneme labels, file stems and extensions used
lower(text) ==
    CASE text = "I" -> "i"
      [] text = "E:" -> "e:"
      [] text = "R2" -> "r2"
      [] text = ".WAV" -> ".wav"
      [] text = ".TextGrid" -> ".textgrid"
      [] OTHER -> text

allowed_phonemes ==
    { <<"i">>, <<"i", "i">>, <<"e">>, <<"e", "e">>, <<"{">>, <<"{", "{">>,
      <<"y">>, <<"y", "y">>, <<"u">>, <<"u", "u">>, <<"o">>, <<"o", "o">>,
      <<"a">>, <<"a", "a">>, <<"2">>, <<"2", "2">>, <<"7">>, <<"7", "7">> }

\* IsSubstring with a fault: the symbol has to be the whole text
IsWholeText(a, s) == a = s

\* allowed_phoneme in phoneme_text
IsSubstring(a, s) ==
    \E k \in 0..(Len(s) - Len(a)) : SubSeq(s, k + 1, k + Len(a)) = a

IsVowel(phoneme_text) ==
    \E allowed_phoneme \in allowed_phonemes :
        IsSubstring(allowed_phoneme, Chars(phoneme_text))

FieldOf(doc, field) ==
    IF field = "_id" THEN doc._id
    ELSE IF field = "parent_id" THEN doc.parent_id ELSE doc.recording_id

\* phoneme.get("word_text", "Unknown")
WordTextOf(doc) == IF "word_text" \in DOMAIN doc THEN doc.word_text ELSE "Unknown"

\* phoneme_data; the one feature column of the model stands for each of the
\* two projected means
PhonemeData(phoneme) ==
    [ Phoneme |-> lower(phoneme.text), F1 |-> phoneme.mean, F2 |-> phoneme.mean,
      Recording |-> phoneme.recording_id, Word |-> WordTextOf(phoneme),
      start |-> phoneme.start, end |-> phoneme.end, duration |-> phoneme.duration ]

\* Database.get_vowels: find({field: {"$in": ids}}), the vowel filter, the
\* grouping by the document's value of field
get_vowels(ids, field) ==
    LET wanted == IF field \in {"_id", "parent_id"} THEN Range(ConvertIds(ids))
                  ELSE Range(ids)
        cursor == SelectSeq(phonemes, LAMBDA d : FieldOf(d, field) \in wanted)
        vowels == SelectSeq(cursor, LAMBDA d : IsVowel(lower(d.text)))
        keys == {FieldOf(vowels[i], field) : i \in 1..Len(vowels)}
    IN  [id_value \in keys |->
            Map(SelectSeq(vowels, LAMBDA d : FieldOf(d, field) = id_value),
                PhonemeData)]

\* --- the pairs the query calls are made over
Ph(text, k) == Interval(text, k * FrameStep, k * FrameStep + 1)
VowelWords == <<Interval("w1", 0, FrameStep + 1),
                Interval("w2", 2 * FrameStep, 2 * FrameStep + 1)>>
VowelFile == File("ok", VowelWords, <<Ph("p", 0), Ph("i", 1), Ph("k", 2)>>, "ok", 3)
QueryFiles ==
    { VowelFile,
      [VowelFile EXCEPT !.phonemes = <<Ph("I", 0), Ph("t2", 1), Ph("E:", 2)>>],
      [VowelFile EXCEPT !.audio = "fail"] }

InitQuery ==
    /\ InitCommon
    /\ probe = NoQuery
    /\ mock = USE_MONGO_MOCK
    /\ files \in [RecIds -> QueryFiles]
    /\ opsLeft = MaxCalls

\* the id strings tried: those of the stored documents, one of no document,
\* each alone or after a string that is no ObjectId
IdStringArgs ==
    LET known == {IdString(oid) : oid \in 1..nextId}
    IN  {<<x>> : x \in known \cup {BadIdString}} \cup {<<BadIdString, x>> : x \in known}

Fetch ==
    /\ AllIdle
    /\ \E recording_ids \in SeqsUpTo(RecIds, MaxIds), analysis_level \in QueryLevels :
         probe' = [op |-> "get_features_for_recordings", ids |-> recording_ids,
                   arg |-> analysis_level,
                   out |-> get_features_for_recordings(recording_ids, analysis_level),
                   at |-> store]
    /\ UNCHANGED <<mock, files, raced, store, nextId, pc, cur, del, opsLeft>>

Vowels ==
    /\ AllIdle
    /\ \E field \in {"_id", "parent_id", "recording_id"} :
         \E ids \in IF field = "recording_id" THEN SeqsUpTo(RecIds, MaxIds)
                    ELSE IdStringArgs :
           probe' = [op |-> "get_vowels", ids |-> ids, arg |-> field,
                     out |-> get_vowels(ids, field), at |-> store]
    /\ UNCHANGED <<mock, files, raced, store, nextId, pc, cur, del, opsLeft>>

NextQuery ==
    \/ \E id \in RecIds : AllIdle /\ Begin(1, id)
    \/ CheckExists(1)
    \/ Parse(1)
    \/ Extract(1)
    \/ InsertRecording(1)
    \/ InsertWords(1)
    \/ InsertPhonemes(1)
    \/ Fetch
    \/ Vowels

SpecQuery == InitQuery /\ [][NextQuery]_vars

\* ------------------------------------------------ fetch_filtered_features
\* A feature document as get_features_for_recordings formats it: mean is a
\* dict, kept as the sequence of its (key, value) pairs in key order;
\* frame_values is a list of (timestamp, values) pairs.
FeatureNames == {"a", "b", "c"}
ColumnCode(name) == IF name = "a" THEN 1 ELSE IF name = "b" THEN 2 ELSE 3

\* the column sets and orderings documents come with
ColumnOrders == {<<"a", "b", "c">>, <<"c", "a">>, <<"b">>, <<>>}

FeatureDoc(id, columns, nframes) ==
    [ _id |-> id, text |-> "x", word_text |-> "", start |-> 0,
      end |-> nframes * FrameStep,
      mean |-> [i \in 1..Len(columns) |-> <<columns[i], ColumnCode(columns[i])>>],
      frame_values |->
          [k \in 1..nframes |->
              <<(k - 1) * FrameStep,
                [i \in 1..Len(columns) |-> 10 * k + ColumnCode(columns[i])]>>] ]

ItemIds == <<"d1", "d2", "d3", "d4">>

\* the lists of 1..MaxIntervals documents one recording is fetched with
FetchedLists ==
    UNION { { [j \in 1..n |-> FeatureDoc(ItemIds[j], cols[j], nf[j])] :
                cols \in [1..n -> ColumnOrders], nf \in [1..n -> {0, MaxFrames}] }
            : n \in 1..MaxIntervals }

\* what the database call returned: nothing, r1 alone, or r1 and r2
FetchedMaps ==
    {EmptyMap}
    \cup {[r \in {"r1"} |-> l] : l \in FetchedLists}
    \cup {[r \in {"r1", "r2"} |->
             IF r = "r1" THEN l ELSE <<FeatureDoc("d9", <<"c", "a">>, MaxFrames)>>] :
          l \in FetchedLists}

\* get_current_selections: no items at recording level
Selections ==
    { [analysis_level |-> level,
       items |-> IF level = "recording" THEN {} ELSE items,
       features |-> feats] :
        level \in Levels,
        items \in {{}, {"d1"}, {"d2", "d9"}, {"d7"}},
        feats \in {{}, {"a"}, {"b"}, {"c", "a"}, {"z"}, FeatureNames} }

\* KeepItem with a fault: the selected documents are the ones removed
KeepItemInverted(f, selected_items) == f._id \notin selected_items

\* f.get("_id") in selected_items
KeepItem(f, selected_items) == f._id \in selected_items

\* the item stage: at word or phoneme level with a selection, the selected
\* documents of each recording; recordings left with none are omitted
FilterItems(all_features, analysis_level, selected_items) ==
    IF analysis_level # "recording" /\ selected_items # {}
    THEN LET filtered_feats(rec_id) ==
                 SelectSeq(all_features[rec_id], LAMBDA f : KeepItem(f, selected_items))
         IN  [rec_id \in {r \in DOMAIN all_features : filtered_feats(r) # <<>>} |->
                 filtered_feats(rec_id)]
    ELSE all_features

\* feature_indices with a fault: positions are taken in the sorted order of
\* all feature names, not in the document's own ordering
feature_indices_global(feature_names, selected_features) ==
    LET global == <<"a", "b", "c">>
        pos == {i \in 1..Len(global) : global[i] \in selected_features
                                        /\ \E k \in 1..Len(feature_names) :
                                              feature_names[k] = global[i]}
    IN  [p \in 1..Cardinality(pos) |->
            CHOOSE i \in pos : Cardinality({j \in pos : j < i}) = p - 1]

\* [i for i, k in enumerate(feature_names) if k in selected_features]
feature_indices(feature_names, selected_features) ==
    LET pos == {i \in 1..Len(feature_names) : feature_names[i] \in selected_features}
    IN  [p \in 1..Cardinality(pos) |->
            CHOOSE i \in pos : Cardinality({j \in pos : j < i}) = p - 1]

\* one document of the feature stage
FilterFeat(feat, selected_features) ==
    LET feature_names == Map(feat.mean, LAMBDA kv : kv[1])
        indices == feature_indices(feature_names, selected_features)
    IN  [ _id |-> feat._id, start |-> feat.start, end |-> feat.end,
          text |-> feat.text, word_text |-> feat.word_text,
          mean |-> SelectSeq(feat.mean, LAMBDA kv : kv[1] \in selected_features),
          frame_values |->
              Map(feat.frame_values,
                  LAMBDA fv : IF fv[2] # <<>> /\ indices # <<>>
                              THEN <<fv[1], [p \in 1..Len(indices) |-> fv[2][indices[p]]]>>
                              ELSE <<fv[1], <<>>>>) ]

\* the feature stage: with a selection, every document projected; recordings
\* with no document are omitted
FilterFeatures(all_features, selected_features) ==
    IF selected_features # {}
    THEN [rec_id \in {r \in DOMAIN all_features : all_features[r] # <<>>} |->
             Map(all_features[rec_id], LAMBDA feat : FilterFeat(feat, selected_features))]
    ELSE all_features

\* MainWindow.fetch_filtered_features past the database call
fetch_filtered_features(all_features, selections) ==
    FilterFeatures(FilterItems(all_features, selections.analysis_level, selections.items),
                   selections.features)

FilterInputs ==
    { [fetched |-> m, selections |-> sel, called |-> FALSE, out |-> EmptyMap] :
        m \in FetchedMaps, sel \in Selections }

InitFilter ==
    /\ InitCommon
    /\ mock = USE_MONGO_MOCK
    /\ files = [id \in RecIds |-> GoodFile]
    /\ opsLeft = 0
    /\ probe \in FilterInputs

Filter ==
    /\ ~probe.called
    /\ probe' = [probe EXCEPT !.called = TRUE,
                              !.out = fetch_filtered_features(probe.fetched,
                                                              probe.selections)]
    /\ UNCHANGED <<mock, files, raced, store, nextId, pc, cur, del, opsLeft>>

SpecFilter == InitFilter /\ [][Filter]_vars

\* ------------------------------------------------------ the similarity analyzer
\* the keys of a dict kept as a sequence of (key, value) pairs
Keys(mean) == [i \in 1..Len(mean) |-> mean[i][1]]

\* a missing cell of a DataFrame
NaN == -1

\* dict.update on dicts kept as sequences of (key, value) pairs: a key already
\* present keeps its place and takes the new value, a new key goes to the end
RECURSIVE Update(_, _)
Update(d, other) ==
    IF other = <<>> THEN d
    ELSE LET kv == Head(other)
             present == \E i \in 1..Len(d) : d[i][1] = kv[1]
             d1 == IF present
                   THEN [i \in 1..Len(d) |-> IF d[i][1] = kv[1] THEN kv ELSE d[i]]
                   ELSE Append(d, kv)
         IN  Update(d1, Tail(other))

\* combined_mean of one recording: an empty dict updated with each
\* document's mean in turn
RECURSIVE MergeMeans(_, _)
MergeMeans(acc, features) ==
    IF features = <<>> THEN acc
    ELSE MergeMeans(Update(acc, Head(features).mean), Tail(features))

Lookup(d, key) ==
    IF \E i \in 1..Len(d) : d[i][1] = key
    THEN d[CHOOSE i \in 1..Len(d) : d[i][1] = key][2]
    ELSE NaN

\* the columns of pd.DataFrame(rows): the keys of the rows in order of first
\* appearance
RECURSIVE ColumnsOf(_, _)
ColumnsOf(rows, acc) ==
    IF rows = <<>> THEN acc
    ELSE ColumnsOf(Tail(rows),
                   Update(acc, [i \in 1..Len(Head(rows)) |-> <<Head(rows)[i][1], 0>>]))

\* SimilarityAnalyzer.prepare_feature_matrix: one row per item of
\* features_dict; set_index on a frame without rows raises KeyError
prepare_feature_matrix(features_dict) ==
    LET rows == [i \in 1..Len(features_dict) |->
                    MergeMeans(<<>>, features_dict[i].features)]
        columns == Keys(ColumnsOf(rows, <<>>))
    IN  IF features_dict = <<>>
        THEN [raised |-> "KeyError", index |-> <<>>, columns |-> <<>>, values |-> <<>>]
        ELSE [raised |-> "none",
              index |-> [i \in 1..Len(features_dict) |-> features_dict[i].recording_id],
              columns |-> columns,
              values |-> [i \in 1..Len(rows) |->
                             [j \in 1..Len(columns) |-> Lookup(rows[i], columns[j])]]]

\* the mean dicts documents come with, and the lists of documents of one
\* recording
MeanDicts == {<<>>, <<<<"a", 1>>>>, <<<<"a", 2>>, <<"b", 5>>>>, <<<<"b", 7>>>>}
MeanDocLists ==
    UNION { [1..n -> {[mean |-> md] : md \in MeanDicts}] : n \in 0..MaxIntervals }

\* the mappings of at most two recordings, in either iteration order
FeatureDicts ==
    {<<>>}
    \cup {<<[recording_id |-> r, features |-> l]>> : r \in RecIds, l \in MeanDocLists}
    \cup {<<[recording_id |-> rq[1], features |-> l],
            [recording_id |-> rq[2], features |-> k]>> :
          rq \in {x \in RecIds \X RecIds : x[1] # x[2]},
          l \in MeanDocLists, k \in MeanDocLists}

NoMatrix == [raised |-> "none", index |-> <<>>, columns |-> <<>>, values |-> <<>>]

InitMatrix ==
    /\ InitCommon
    /\ mock = USE_MONGO_MOCK
    /\ files = [id \in RecIds |-> GoodFile]
    /\ opsLeft = 0
    /\ probe \in {[features_dict |-> fd, called |-> FALSE, out |-> NoMatrix] :
                    fd \in FeatureDicts}

PrepareMatrix ==
    /\ ~probe.called
    /\ probe' = [probe EXCEPT !.called = TRUE,
                              !.out = prepare_feature_matrix(probe.features_dict)]
    /\ UNCHANGED <<mock, files, raced, store, nextId, pc, cur, del, opsLeft>>

SpecMatrix == InitMatrix /\ [][PrepareMatrix]_vars

\* --- the analysis calls
\* Similarities are held as whole numbers of the float spacing just below
\* 1.0, with One standing for 1.0.  Above 1.0 the spacing of floats doubles,
\* so 1 - s is rounded there (ties to even); up to 1.0 it is exact.
One == 4
Spacing == 2

Min(a, b) == IF a <= b THEN a ELSE b

\* Distance with a fault: the similarity itself is taken as the distance
DistanceNotInverted(s) == s

\* 1 - similarity, as computed
Distance(s) == IF One - s <= One THEN One - s ELSE RoundTo(One - s, Spacing)

\* the cluster count and the component count the analysis calls pass
n_clusters == 4
n_components_10d == 10

\* A feature matrix: index is df.index; ncols the number of feature columns;
\* nan whether a cell is missing; sim_row and pca_sim_row the rows at the
\* target's index of cosine_similarity over the scaled matrix and over its
\* PCA image (empty when the target is no row).
RowIds == <<"r1", "r2", "r3", "r4", "r5", "r6", "r7", "r8", "r9", "r10", "r11", "r12", "r13">>

IndexOf(df, recording_id) ==
    IF \E i \in 1..Len(df.index) : df.index[i] = recording_id
    THEN CHOOSE i \in 1..Len(df.index) : df.index[i] = recording_id
    ELSE None

\* normalize_and_reduce with a fault: n_components is passed on unclamped
normalize_and_reduce_unclamped(df, n_components) ==
    IF Len(df.index) = 0 \/ df.ncols = 0
    THEN [result |-> "None", rows |-> None, n_components |-> None]
    ELSE IF df.nan \/ n_components > Min(Len(df.index), df.ncols)
         THEN [result |-> "ValueError", rows |-> Len(df.index),
               n_components |-> n_components]
         ELSE [result |-> "ok", rows |-> Len(df.index), n_components |-> n_components]

\* SimilarityAnalyzer.normalize_and_reduce.  StandardScaler passes missing
\* cells through; PCA.fit_transform raises ValueError on a missing cell and
\* when n_components exceeds min(rows, columns).
normalize_and_reduce(df, n_components) ==
    IF Len(df.index) = 0 \/ df.ncols = 0
    THEN [result |-> "None", rows |-> None, n_components |-> None]
    ELSE LET requested == Min(n_components, df.ncols)
         IN  IF df.nan \/ requested > Min(Len(df.index), df.ncols)
             THEN [result |-> "ValueError", rows |-> Len(df.index),
                   n_components |-> requested]
             ELSE [result |-> "ok", rows |-> Len(df.index), n_components |-> requested]

\* SimilarityAnalyzer.cluster on the result of normalize_and_reduce.
\* KMeans.fit_predict raises ValueError with fewer rows than clusters.
cluster(X_pca, clusters) ==
    IF X_pca.result = "None" \/ X_pca.rows * X_pca.n_components = 0 THEN "None"
    ELSE IF X_pca.rows < clusters THEN "ValueError"
    ELSE "ok"

\* list.sort with a fault: an element goes in front of its equals
RECURSIVE InsertInFrontOfEquals(_, _, _)
InsertInFrontOfEquals(sorted, x, reverse) ==
    IF sorted = <<>> THEN <<x>>
    ELSE IF (IF reverse THEN Head(sorted)[2] > x[2] ELSE Head(sorted)[2] < x[2])
         THEN <<Head(sorted)>> \o InsertInFrontOfEquals(Tail(sorted), x, reverse)
         ELSE <<x>> \o sorted

\* list.sort(key=lambda x: x[1], reverse=...) is stable: an element goes
\* behind everything that does not have to follow it
RECURSIVE InsertSorted(_, _, _)
InsertSorted(sorted, x, reverse) ==
    IF sorted = <<>> THEN <<x>>
    ELSE IF (IF reverse THEN Head(sorted)[2] >= x[2] ELSE Head(sorted)[2] <= x[2])
         THEN <<Head(sorted)>> \o InsertSorted(Tail(sorted), x, reverse)
         ELSE <<x>> \o sorted

RECURSIVE SortPairs(_, _, _)
SortPairs(done, pairs, reverse) ==
    IF pairs = <<>> THEN done
    ELSE SortPairs(InsertSorted(done, Head(pairs), reverse), Tail(pairs), reverse)

\* OtherRows with a fault: the target's own row is kept
AllRows(n, target_idx) == [i \in 1..n |-> i]

\* range(len(...)) if i != target_idx
OtherRows(n, target_idx) ==
    [k \in 1..(n - 1) |-> IF k < target_idx THEN k ELSE k + 1]

\* [(df.index[i], scores[i]) for i in range(len(scores)) if i != target_idx]
PairsOf(df, scores, target_idx) ==
    LET rows == OtherRows(Len(scores), target_idx)
    IN  [k \in 1..Len(rows) |-> <<df.index[rows[k]], scores[rows[k]]>>]

\* pairs[:top_n], top_n at least 1
Take(pairs, top_n) == SubSeq(pairs, 1, Min(top_n, Len(pairs)))

Raised(kind) == [raised |-> kind, similar_list |-> <<>>]
Returned(similar_list) == [raised |-> "none", similar_list |-> similar_list]

\* TargetNotInDataset with a fault: idx_map[target_recording] without the
\* membership test fails with KeyError
LookupFailure == "KeyError"

\* raise ValueError("Target recording not in dataset.")
TargetNotInDataset == "ValueError"

\* SimilarityAnalyzer.analyze_clusters
analyze_clusters(target_recording, df, top_n) ==
    LET X_pca_10d == normalize_and_reduce(df, n_components_10d)
        labels == cluster(X_pca_10d, n_clusters)
        target_idx == IndexOf(df, target_recording)
    IN  IF X_pca_10d.result = "None" THEN Raised("ValueError")
        ELSE IF X_pca_10d.result = "ValueError" THEN Raised("ValueError")
        ELSE IF labels = "None" THEN Raised("ValueError")
        ELSE IF labels = "ValueError" THEN Raised("ValueError")
        ELSE IF target_idx = None THEN Raised(TargetNotInDataset)
        ELSE Returned(Take(SortPairs(<<>>, PairsOf(df, df.pca_sim_row, target_idx), TRUE),
                           top_n))

\* SimilarityAnalyzer.analyze_scores.  StandardScaler.fit raises ValueError
\* on a matrix without rows or columns, cosine_similarity on a missing cell.
analyze_scores(target_recording, df, top_n, method) ==
    LET target_idx == IndexOf(df, target_recording)
        X_pca_10d == normalize_and_reduce(df, n_components_10d)
    IN  IF method = "cosine"
        THEN IF Len(df.index) = 0 \/ df.ncols = 0 \/ df.nan THEN Raised("ValueError")
             ELSE IF target_idx = None THEN Raised(TargetNotInDataset)
             ELSE Returned(Take(SortPairs(<<>>, PairsOf(df, df.sim_row, target_idx), TRUE),
                                top_n))
        ELSE IF method = "pca_cosine_distance"
        THEN IF X_pca_10d.result # "ok" THEN Raised("ValueError")
             ELSE IF target_idx = None THEN Raised(TargetNotInDataset)
             ELSE Returned(Take(SortPairs(<<>>,
                                          PairsOf(df, Map(df.pca_sim_row, Distance),
                                                  target_idx),
                                          FALSE),
                                top_n))
        ELSE Raised("ValueError")

\* MainWindow.analyze_similarity on the distance list: back to similarities,
\* sorted again
ConvertedSimilarities(distance_list) ==
    SortPairs(<<>>, [k \in 1..Len(distance_list) |->
                       <<distance_list[k][1], One - distance_list[k][2]>>], TRUE)

\* --- the matrices and calls the analysis is run over
Frame(n, ncols, nan, sim_row, pca_sim_row) ==
    [index |-> SubSeq(RowIds, 1, n), ncols |-> ncols, nan |-> nan,
     sim_row |-> sim_row, pca_sim_row |-> pca_sim_row]

AbsentTarget == "zz"

NoAnalysis == [raised |-> "none", similar_list |-> <<>>, X_pca |-> "not called",
               labels |-> "not called"]

\* every shape up to MaxShape rows and columns, with and without a missing
\* cell, the target the first row or no row; the similarity rows are those
\* of rows orthogonal to the target
ShapeFrames ==
    { Frame(n, ncols, nan, <<>>, <<>>) :
        n \in 0..MaxShape, ncols \in 0..MaxShape, nan \in BOOLEAN }

SimsFor(df, target) ==
    IF IndexOf(df, target) = None THEN <<>>
    ELSE [i \in 1..Len(df.index) |-> IF df.index[i] = target THEN One ELSE 0]

ShapeInputs ==
    { [call |-> call.name, n_components |-> call.n, method |-> "",
       df |-> [df EXCEPT !.sim_row = SimsFor(df, target),
                         !.pca_sim_row = SimsFor(df, target)],
       target |-> target, top_n |-> 1, called |-> FALSE, out |-> NoAnalysis] :
        df \in {d \in ShapeFrames : d.nan => (Len(d.index) > 0 /\ d.ncols > 0)},
        target \in {RowIds[1], AbsentTarget},
        call \in {[name |-> "normalize_and_reduce", n |-> k] : k \in 1..(MaxShape + 1)}
                 \cup {[name |-> "analyze_clusters", n |-> n_components_10d]} }

\* the similarities the other rows have to the target
SimValues == {-1, 0, 1, One}

\* MaxRows rows at most, two columns, no missing cell; the target any row;
\* the PCA image keeps the similarities or turns their signs
RankFrames ==
    UNION { { [df |-> Frame(nt[1], 2, FALSE, sims,
                            IF turned
                            THEN [i \in 1..nt[1] |->
                                     IF i = nt[2] THEN One ELSE 0 - sims[i]]
                            ELSE sims),
               target |-> RowIds[nt[2]]] :
                sims \in {v \in [1..nt[1] -> SimValues] : v[nt[2]] = One},
                turned \in BOOLEAN }
            : nt \in {x \in (1..MaxRows) \X (1..MaxRows) : x[2] <= x[1]} }

RankInputs ==
    { [call |-> IF method = "clusters" THEN "analyze_clusters" ELSE "analyze_scores",
       n_components |-> n_components_10d, method |-> method,
       df |-> ft.df, target |-> ft.target, top_n |-> top_n,
       called |-> FALSE, out |-> NoAnalysis] :
        ft \in {x \in RankFrames : IndexOf(x.df, x.target) # None}
               \cup {[df |-> Frame(n, 2, FALSE, <<>>, <<>>), target |-> AbsentTarget] :
                        n \in 1..MaxRows},
        top_n \in 1..MaxRows,
        method \in {"clusters", "cosine", "pca_cosine_distance", "euclidean"} }

\* normalize_and_reduce, then cluster on what it returned
Reduce ==
    /\ ~probe.called /\ probe.call = "normalize_and_reduce"
    /\ LET X_pca == normalize_and_reduce(probe.df, probe.n_components)
       IN  probe' = [probe EXCEPT
                        !.called = TRUE,
                        !.out = [NoAnalysis EXCEPT
                                    !.X_pca = X_pca,
                                    !.labels = IF X_pca.result = "ValueError"
                                               THEN "not called"
                                               ELSE cluster(X_pca, n_clusters)]]
    /\ UNCHANGED <<mock, files, raced, store, nextId, pc, cur, del, opsLeft>>

AnalyzeClusters ==
    /\ ~probe.called /\ probe.call = "analyze_clusters"
    /\ LET r == analyze_clusters(probe.target, probe.df, probe.top_n)
       IN  probe' = [probe EXCEPT
                        !.called = TRUE,
                        !.out = [NoAnalysis EXCEPT !.raised = r.raised,
                                                   !.similar_list = r.similar_list]]
    /\ UNCHANGED <<mock, files, raced, store, nextId, pc, cur, del, opsLeft>>

AnalyzeScores ==
    /\ ~probe.called /\ probe.call = "analyze_scores"
    /\ LET r == analyze_scores(probe.target, probe.df, probe.top_n, probe.method)
       IN  probe' = [probe EXCEPT
                        !.called = TRUE,
                        !.out = [NoAnalysis EXCEPT !.raised = r.raised,
                                                   !.similar_list = r.similar_list]]
    /\ UNCHANGED <<mock, files, raced, store, nextId, pc, cur, del, opsLeft>>

InitAnalysis ==
    /\ InitCommon
    /\ mock = USE_MONGO_MOCK
    /\ files = [id \in RecIds |-> GoodFile]
    /\ opsLeft = 0

InitReduce == InitAnalysis /\ probe \in ShapeInputs

SpecReduce == InitReduce /\ [][Reduce \/ AnalyzeClusters]_vars

InitRank == InitAnalysis /\ probe \in RankInputs

SpecRank == InitRank /\ [][AnalyzeClusters \/ AnalyzeScores]_vars

\* ------------------------------------------------------ clean_intervals
\* the labels a tier is cleaned of or keeps, with and without whitespace
\* around or inside them
CleanLabels ==
    {"a ", "SIL", " SIL ", "S IL", "sil", "<sil>", "\t.noise", "", "  "}

\* the lists of at most MaxIntervals + 1 intervals, interval k on [k - 1, k]
CleanInputs ==
    UNION { { [k \in 1..n |-> Interval(labels[k], k - 1, k)] :
                labels \in [1..n -> CleanLabels] }
            : n \in 0..(MaxIntervals + 1) }

\* intervals is the caller's list as it stands, arg what it held at the
\* call; out the list returned, again what a call on that list returns
NoClean == [intervals |-> <<>>, arg |-> <<>>, calls |-> 0, out |-> <<>>, again |-> <<>>]

InitClean ==
    /\ InitCommon
    /\ mock = USE_MONGO_MOCK
    /\ files = [id \in RecIds |-> GoodFile]
    /\ opsLeft = 0
    /\ probe \in {[NoClean EXCEPT !.intervals = l, !.arg = l] : l \in CleanInputs}

\* clean_intervals(intervals): the comprehension reads intervals and builds
\* a list of its own
Clean ==
    /\ probe.calls = 0
    /\ probe' = [probe EXCEPT !.calls = 1, !.out = clean_intervals(probe.intervals)]
    /\ UNCHANGED <<mock, files, raced, store, nextId, pc, cur, del, opsLeft>>

\* clean_intervals on the list the first call returned
CleanAgain ==
    /\ probe.calls = 1
    /\ probe' = [probe EXCEPT !.calls = 2, !.again = clean_intervals(probe.out)]
    /\ UNCHANGED <<mock, files, raced, store, nextId, pc, cur, del, opsLeft>>

SpecClean == InitClean /\ [][Clean \/ CleanAgain]_vars

\* ------------------------------------------- tiers that cleaning empties
\* a tier as it is, without entries, of silence only (as it stands, or once
\* the parser has stripped the labels), and of silence around one label
TierChoices(tier) ==
    { tier,
      <<>>,
      <<Interval("SIL", 0, MaxT)>>,
      <<Interval(" SIL ", 0, 1), Interval("\t.noise", 1, MaxT)>>,
      <<Interval("<sil>", 0, 1), [tier[1] EXCEPT !.start = 1, !.end = MaxT]>> }

TierFiles ==
    { [GoodFile EXCEPT !.words = w, !.phonemes = p] :
        w \in TierChoices(GoodFile.words), p \in TierChoices(GoodFile.phonemes) }

\* two calls for one pair, the pair ranging over TierFiles
InitTier ==
    /\ InitCommon
    /\ probe = NoProbe
    /\ mock = USE_MONGO_MOCK
    /\ files \in {[id \in RecIds |-> IF id = "r1" THEN f ELSE GoodFile] : f \in TierFiles}
    /\ opsLeft = 2

SpecTier == InitTier /\ [][NextIngest]_vars

\* ---------------------------------------------------------- import_files
\* A path as os.path.basename and os.path.splitext take it apart: the stem
\* and the extension of its last component.
Path(stem, ext) == [stem |-> stem, ext |-> ext]

\* paths.get('audio') / paths.get('textgrid') of a key that is not set
NoPath == Path("", "")

\* the paths a selection is made of: two pairs, the second with its names in
\* other case and with whitespace, a TextGrid alone and a file of another kind
BatchPaths ==
    { Path("r1", ".wav"), Path("r1", ".TextGrid"),
      Path("R2 ", ".WAV"), Path("r2", ".textgrid"),
      Path("r4", ".TextGrid"), Path("r5", ".txt") }

\* the selections of at most MaxPaths different paths, in any order
RECURSIVE Selections_(_)
Selections_(n) ==
    IF n = 0 THEN {<<>>}
    ELSE LET shorter == Selections_(n - 1)
         IN  shorter \cup
             {Append(q, x) : q \in {r \in shorter : Len(r) = n - 1}, x \in BatchPaths}

PathSelections ==
    {q \in Selections_(MaxPaths) : \A i \in 1..Len(q) : \A j \in 1..Len(q) :
                                      q[i] = q[j] => i = j}

\* os.path.basename(textgrid_path).replace(".TextGrid", "")
FileName(textgrid_path) ==
    IF textgrid_path.ext = ".TextGrid" THEN textgrid_path.stem
    ELSE IF textgrid_path = Path("r2", ".textgrid") THEN "r2.textgrid"
    ELSE textgrid_path.stem

\* the names process_single_recording can be handed, and what lies on disk
\* under each: the first pair in every way a call can end, the others sound
BatchNames == {FileName(path) : path \in {q \in BatchPaths : lower(q.ext) = ".textgrid"}}
BatchDisks ==
    { [name \in BatchNames |-> IF name = "r1" THEN f ELSE GoodFile] : f \in LifecycleFiles }

\* the first loop of import_files: file_pairs in insertion order of its keys
RECURSIVE PairUp(_, _)
PairUp(file_pairs, paths) ==
    IF paths = <<>> THEN file_pairs
    ELSE LET file_path == Head(paths)
             base_name == lower(strip(file_path.stem))
             ext == lower(file_path.ext)
             known == \E k \in 1..Len(file_pairs) : file_pairs[k].base_name = base_name
             entered == IF known THEN file_pairs
                        ELSE Append(file_pairs, [base_name |-> base_name,
                                                 audio |-> NoPath, textgrid |-> NoPath])
             k == CHOOSE k \in 1..Len(entered) : entered[k].base_name = base_name
         IN  PairUp(IF ext = ".wav" THEN [entered EXCEPT ![k].audio = file_path]
                    ELSE IF ext = ".textgrid"
                         THEN [entered EXCEPT ![k].textgrid = file_path]
                    ELSE entered,
                    Tail(paths))

\* the import_files call: its argument, file_pairs, the turn of the second
\* loop it stands before, missing_pairs, the base names
\* process_single_recording was called for, and how the call ended
NoBatch == [phase |-> "none", files |-> <<>>, file_pairs |-> <<>>, i |-> 0,
            missing_pairs |-> <<>>, attempts |-> <<>>, out |-> <<>>]

InitBatch ==
    /\ InitCommon
    /\ probe = NoBatch
    /\ mock = USE_MONGO_MOCK
    /\ files \in BatchDisks
    /\ opsLeft = 1

\* if audio_file and textgrid_file
PairComplete(paths) == paths.audio # NoPath /\ paths.textgrid # NoPath

\* import_files(files) up to the second loop
ImportFiles(paths) ==
    /\ AllIdle /\ opsLeft > 0 /\ probe.phase = "none"
    /\ opsLeft' = opsLeft - 1
    /\ probe' = [NoBatch EXCEPT !.phase = "loop", !.files = paths,
                                !.file_pairs = PairUp(<<>>, paths), !.i = 1]
    /\ UNCHANGED <<mock, files, raced, store, nextId, pc, cur, del>>

\* one turn of the second loop, or what follows the loop; the last
\* process_single_recording has returned
ImportNext ==
    /\ probe.phase = "loop" /\ pc[1] = "idle" /\ cur[1].result # "raised"
    /\ IF probe.i > Len(probe.file_pairs)
       THEN /\ probe' = [probe EXCEPT !.phase = "returned", !.out = probe.missing_pairs]
            /\ UNCHANGED <<pc, cur>>
       ELSE LET paths == probe.file_pairs[probe.i]
            IN  IF PairComplete(paths)
                THEN /\ pc' = [pc EXCEPT ![1] = "exists"]
                     /\ cur' = [cur EXCEPT ![1] = [IdleCall EXCEPT
                                                     !.id = FileName(paths.textgrid)]]
                     /\ probe' = [probe EXCEPT
                                     !.i = probe.i + 1,
                                     !.attempts = Append(probe.attempts, paths.base_name)]
                ELSE /\ probe' = [probe EXCEPT
                                     !.i = probe.i + 1,
                                     !.missing_pairs = Append(probe.missing_pairs,
                                                              paths.base_name)]
                     /\ UNCHANGED <<pc, cur>>
    /\ UNCHANGED <<mock, files, raced, store, nextId, del, opsLeft>>

\* process_single_recording raised: nothing in import_files catches it
ImportRaise ==
    /\ probe.phase = "loop" /\ pc[1] = "idle" /\ cur[1].result = "raised"
    /\ probe' = [probe EXCEPT !.phase = "raised"]
    /\ UNCHANGED <<mock, files, raced, store, nextId, pc, cur, del, opsLeft>>

NextBatch ==
    \/ \E paths \in PathSelections : ImportFiles(paths)
    \/ ImportNext
    \/ ImportRaise
    \/ CheckExists(1)
    \/ Parse(1)
    \/ Extract(1)
    \/ InsertRecording(1)
    \/ InsertWords(1)
    \/ InsertPhonemes(1)

SpecBatch == InitBatch /\ [][NextBatch]_vars

\* --------------------------------------------------- the query operations
\* AfterRead with a fault: the read takes the first document out
AfterReadDrained(col) == IF col = <<>> THEN col ELSE Tail(col)

\* a collection after find / find_one has read from it
AfterRead(col) == col

\* Database.get_all_recordings: a PyMongoError is logged and raised again
get_all_recordings(fault) ==
    IF fault THEN [raised |-> "PyMongoError", value |-> <<>>]
    ELSE [raised |-> "none", value |-> Map(recordings, LAMBDA d : d.recording_id)]

\* Database.get_recording_by_id: the first document of the id, as the list
\* of at most that one document; a PyMongoError is logged and raised again
get_recording_by_id(recording_id, fault) ==
    IF fault THEN [raised |-> "PyMongoError", value |-> <<>>]
    ELSE [raised |-> "none",
          value |-> SubSeq(Find(recordings, recording_id), 1,
                           IF Find(recordings, recording_id) = <<>> THEN 0 ELSE 1)]

\* Database.get_mean_features: the recordings documents of the ids, grouped
\* by recording_id; any exception is answered with {}
get_mean_features(recording_ids, fault) ==
    IF fault THEN EmptyMap
    ELSE LET features_list ==
                 SelectSeq(recordings, LAMBDA d : d.recording_id \in Range(recording_ids))
             keys == {features_list[i].recording_id : i \in 1..Len(features_list)}
         IN  [recording_id \in keys |->
                 Map(Find(features_list, recording_id),
                     LAMBDA feature : [_id |-> feature._id, text |-> feature.text,
                                       start |-> feature.start, end |-> feature.end,
                                       mean |-> feature.mean])]

\* the query calls: which, with what, the outcome, the collections at the
\* call, and the number of calls made so far
NoRead == [op |-> "none", ids |-> <<>>, arg |-> "", n |-> 0, at |-> <<>>,
           out |-> [raised |-> "none", value |-> <<>>]]

\* a store whose operations may raise, two sound pairs on disk
InitRead ==
    /\ InitCommon
    /\ probe = NoRead
    /\ mock = FALSE
    /\ files = [id \in RecIds |-> VowelFile]
    /\ opsLeft = 2

\* the frame of a query call: the collections it reads, after the reads
Read(names, op, ids, arg, out) ==
    /\ AllIdle /\ opsLeft > 0
    /\ opsLeft' = opsLeft - 1
    /\ recordings' = IF "recordings" \in names THEN AfterRead(recordings) ELSE recordings
    /\ words' = IF "words" \in names THEN AfterRead(words) ELSE words
    /\ phonemes' = IF "phonemes" \in names THEN AfterRead(phonemes) ELSE phonemes
    /\ probe' = [op |-> op, ids |-> ids, arg |-> arg, n |-> probe.n + 1, at |-> store,
                 out |-> out]
    /\ UNCHANGED <<mock, files, raced, nextId, pc, cur, del>>

ReadIds == {<<>>, <<"r1">>, <<"r2", "r1">>}

GetAllRecordings ==
    \E fault \in FaultChoices :
        Read({"recordings"}, "get_all_recordings", <<>>, "", get_all_recordings(fault))

RecordingExists ==
    \E recording_id \in RecIds, fault \in FaultChoices :
        Read({"recordings"}, "recording_exists", <<recording_id>>, "",
             [raised |-> "none", value |-> recording_exists(recording_id, fault)])

GetRecordingById ==
    \E recording_id \in RecIds, fault \in FaultChoices :
        Read({"recordings"}, "get_recording_by_id", <<recording_id>>, "",
             get_recording_by_id(recording_id, fault))

\* a PyMongoError in the reads of get_features_for_recordings is caught
\* with every other exception
GetFeaturesForRecordings ==
    \E recording_ids \in ReadIds, analysis_level \in QueryLevels, fault \in FaultChoices :
        Read({"recordings", IF analysis_level = "word" THEN "words"
                            ELSE IF analysis_level = "phoneme" THEN "phonemes"
                            ELSE "recordings"},
             "get_features_for_recordings", recording_ids, analysis_level,
             [raised |-> "none",
              value |-> IF fault THEN EmptyMap
                        ELSE get_features_for_recordings(recording_ids, analysis_level)])

GetMeanFeatures ==
    \E recording_ids \in ReadIds, fault \in FaultChoices :
        Read({"recordings"}, "get_mean_features", recording_ids, "",
             [raised |-> "none", value |-> get_mean_features(recording_ids, fault)])

\* a PyMongoError in find leaves get_vowels with the empty phoneme_dict
GetVowels ==
    \E field \in {"_id", "parent_id", "recording_id"}, fault \in FaultChoices :
        \E ids \in IF field = "recording_id" THEN ReadIds
                   ELSE {<<BadIdString>>, <<BadIdString, IdString(nextId - 1)>>} :
            Read({"phonemes"}, "get_vowels", ids, field,
                 [raised |-> "none",
                  value |-> IF fault THEN EmptyMap ELSE get_vowels(ids, field)])

NextRead ==
    \/ \E id \in RecIds : AllIdle /\ Begin(1, id)
    \/ CheckExists(1)
    \/ Parse(1)
    \/ Extract(1)
    \/ InsertRecording(1)
    \/ InsertWords(1)
    \/ InsertPhonemes(1)
    \/ GetAllRecordings
    \/ RecordingExists
    \/ GetRecordingById
    \/ GetFeaturesForRecordings
    \/ GetMeanFeatures
    \/ GetVowels

SpecRead == InitRead /\ [][NextRead]_vars

\* ---------------------------------------------- ingestion of a long pair
\* two words and two phonemes over MaxSliceFrames frames, sharing a boundary
\* in the middle, the bounds on and off the microsecond grid
LongEnd == (MaxSliceFrames - 1) * FrameStep
LongFiles ==
    { File("ok", <<W(1, a, c), W(2, c, b)>>, <<P(1, a, c), P(2, c, b)>>, "ok",
           MaxSliceFrames) :
        a \in 0..(FrameStep - 1),
        b \in {LongEnd, LongEnd + 1},
        c \in (10 * FrameStep)..(11 * FrameStep) }

InitStored ==
    /\ InitCommon
    /\ probe = NoProbe
    /\ mock = USE_MONGO_MOCK
    /\ files \in {[id \in RecIds |-> IF id = "r1" THEN f ELSE GoodFile] : f \in LongFiles}
    /\ opsLeft = 1

SpecStored == InitStored /\ [][NextIngest]_vars

\* ===================================================================== claims
IdsOf(q) == {q[i] : i \in 1..Len(q)}
DocsWith(col, ids) == {i \in 1..Len(col) : col[i].recording_id \in ids}
Without(col, ids) == SelectSeq(col, LAMBDA d : ~(d.recording_id \in ids))

\* ------------------------------------------------------------------------ C1
AtMostOneRecording == \A id \in RecIds : CountFor(recordings, id) <= 1

ExistingIsNoOp ==
    \A c \in Callers :
        (pc[c] = "exists" /\ HasRecording(recordings, cur[c].id) /\ pc'[c] # "exists")
        => /\ pc'[c] = "idle"
           /\ cur'[c].result = "exists"
           /\ ~cur'[c].parsed /\ ~cur'[c].extracted
           /\ store' = store

\* C1: a process_single_recording call for a recording_id that already has a
\* recording document returns at the existence check: the three collections
\* are unchanged and neither parse_textgrid nor process_file has run; and
\* whatever sequence of calls is made one after the other, recordings never
\* holds two documents of one recording_id.
C1_IdempotentIngestion == [](AtMostOneRecording) /\ [][ExistingIsNoOp]_vars

\* the same pair was ingested and then ingested again
C1_Witness ==
    \E c \in Callers :
        /\ pc[c] = "idle" /\ cur[c].result = "exists"
        /\ CountFor(recordings, cur[c].id) = 1
        /\ CountFor(phonemes, cur[c].id) > 0

\* ------------------------------------------------------------------------ C9
DeleteReturns == del.pc # "idle" /\ del'.pc = "idle" /\ del'.outcome = "returned"

DeletePost ==
    LET ids == IdsOf(del.ids)
        pre == [recordings |-> del.pre[1], words |-> del.pre[2], phonemes |-> del.pre[3]]
        post == [recordings |-> recordings', words |-> words', phonemes |-> phonemes']
    IN  /\ \A n \in DOMAIN post : DocsWith(post[n], ids) = {}
        /\ \A n \in DOMAIN post : post[n] = Without(pre[n], ids)
        /\ DOMAIN del'.report = DOMAIN post
        /\ \A n \in DOMAIN post : del'.report[n] = Cardinality(DocsWith(pre[n], ids))

\* C9: when delete_recordings(ids) returns its report for a non-empty list of
\* strings, no document of an id in ids is left in phonemes, words or
\* recordings, the documents of every other id are as they were when the call
\* was made (and in the same order), and the report gives for each of the
\* three collections the number of documents deleted from it.
C9_DeleteCascade == [][DeleteReturns => DeletePost]_vars

\* a recording with its words and phonemes was deleted while another stayed
C9_Witness ==
    /\ del.pc = "idle" /\ del.outcome = "returned"
    /\ del.report["recordings"] = 1 /\ del.report["words"] > 0
    /\ del.report["phonemes"] > 0
    /\ Len(recordings) = 1 /\ Len(phonemes) > 0

\* ----------------------------------------------------------------------- C10
\* C10 (as claimed): when delete_many fails in one collection, what
\* delete_recordings hands its caller still holds the deleted counts of the
\* collections whose delete succeeded.
C10_PartialReport ==
    del.outcome = "RuntimeError" => del.report = del.results

\* ------------------------------------------------------------------------ C2
\* C2 (as claimed): in every interleaving of two callers, recordings holds at
\* most one document of any recording_id.
C2_UniqueUnderInterleaving == \A id \in RecIds : CountFor(recordings, id) <= 1

\* C2 (amended): recordings holds at most one document of a recording_id
\* unless a caller ran recording_exists for that id while another caller stood
\* between its own recording_exists and its insert into recordings for the
\* same id; calls for one id that do not overlap in that window leave one
\* document.
C2_UniqueUnlessOverlapped ==
    \A id \in RecIds : CountFor(recordings, id) <= 1 \/ id \in raced

\* two callers ingested the same pair, the second after the first had
\* inserted: one document, the second call returned at the existence check
C2_Witness ==
    /\ pc[1] = "idle" /\ pc[2] = "idle"
    /\ cur[1].id = cur[2].id
    /\ {cur[1].result, cur[2].result} = {"processed", "exists"}
    /\ cur[1].id \notin raced
    /\ CountFor(recordings, cur[1].id) = 1

\* ------------------------------------------------------------------------ C3
\* the frames an interval's slice holds, counted from the frame grid
FramesIn(id, iv) ==
    {k \in 0..(files[id].nframes - 1) :
        iv.start <= k * FrameStep /\ k * FrameStep <= iv.end}
NonEmpty(id, tier) == {i \in 1..Len(tier) : FramesIn(id, tier[i]) # {}}

\* insert_data has run to its end (by return or by exception) in call c
Ingested(c) == pc[c] = "idle" /\ cur[c].extracted /\ files[cur[c].id].audio = "ok"

\* C3 (as claimed): after ingestion of a recording whose cleaned tiers are
\* non-empty, words holds one document per cleaned word interval with a
\* non-empty slice and phonemes one per cleaned phoneme interval with a
\* non-empty slice, whatever the combination of empty and non-empty slices.
C3_Coverage ==
    \A c \in Callers :
        Ingested(c) =>
            /\ CountFor(words, cur[c].id)
                 = Cardinality(NonEmpty(cur[c].id, CleanWords(cur[c].id)))
            /\ CountFor(phonemes, cur[c].id)
                 = Cardinality(NonEmpty(cur[c].id, CleanPhonemes(cur[c].id)))

\* ------------------------------------------------------------------------ C4
Stored(col, id, iv) ==
    \E i \in 1..Len(col) :
        /\ col[i].recording_id = id /\ col[i].text = iv.text
        /\ col[i].start = Round6(iv.start) /\ col[i].end = Round6(iv.end)

\* C4 (as claimed): when some word or phoneme interval has an empty slice,
\* the recording document and the document of every interval whose slice is
\* not empty, words and phonemes alike, are stored all the same.
C4_OnlyEmptyDropped ==
    \A c \in Callers :
        LET id == cur[c].id
            ws == CleanWords(id)
            ps == CleanPhonemes(id)
        IN  (/\ Ingested(c)
             /\ Cardinality(NonEmpty(id, ws)) + Cardinality(NonEmpty(id, ps))
                  < Len(ws) + Len(ps))
            => /\ HasRecording(recordings, id)
               /\ \A i \in NonEmpty(id, ws) : Stored(words, id, ws[i])
               /\ \A i \in NonEmpty(id, ps) : Stored(phonemes, id, ps[i])

\* ------------------------------------------------------------------------ C5
WordsOf(id) == SelectSeq(words, LAMBDA w : w.recording_id = id)
Holders(p) ==
    SelectSeq(WordsOf(p.recording_id),
              LAMBDA w : w.start <= p.start /\ p.start < w.end)

ParentResolved ==
    \A i \in 1..Len(phonemes) :
        LET p == phonemes[i] IN
        /\ (p.parent_id = None) <=> (Holders(p) = <<>>)
        /\ Holders(p) # <<>> => p.parent_id = Holders(p)[1]._id

\* a phoneme whose slice holds frames is stored whenever the call got as far
\* as the phonemes, containing word or not
OrphansStored ==
    \A c \in Callers :
        LET id == cur[c].id IN
        (Ingested(c) /\ CountFor(words, id) > 0)
        => /\ \A i \in NonEmpty(id, CleanPhonemes(id)) :
                Stored(phonemes, id, CleanPhonemes(id)[i])
           /\ NonEmpty(id, CleanPhonemes(id)) # {} => cur[c].result = "processed"

\* C5: every stored phoneme document's parent_id is the _id of the first word
\* document of its recording, in word order, with word.start <= phoneme.start
\* < word.end, and is null exactly when there is no such word document; a
\* phoneme without a containing word is stored (with the null parent) and the
\* call still ends as processed.
C5_ParentResolution == ParentResolved /\ OrphansStored

\* one phoneme under a word next to one under none, in a processed recording
C5_Witness ==
    /\ cur[1].result = "processed"
    /\ \E i, j \in 1..Len(phonemes) :
         /\ phonemes[i].parent_id # None
         /\ phonemes[j].parent_id = None
         /\ \E k \in 1..Len(words) : words[k].end <= phonemes[j].start

\* ------------------------------------------------------------------------ C6
\* C6 (as claimed): every stored phoneme document has start >= 0 and
\* end > start, and one with a parent lies with its whole span inside the
\* span of the word document its parent_id names.
C6_PhonemeInsideParent ==
    \A i \in 1..Len(phonemes) :
        LET p == phonemes[i] IN
        /\ p.start >= 0 /\ p.end > p.start
        /\ p.parent_id # None =>
             \E k \in 1..Len(words) :
                 /\ words[k]._id = p.parent_id
                 /\ words[k].start <= p.start /\ p.end <= words[k].end

\* ------------------------------------------------------------------- C7, C8
\* the rows of the probed feature matrix whose index lies in [start, end]
Qualifying(iv) ==
    {k \in 1..Len(probe.features) :
        iv.start <= probe.features[k].t /\ probe.features[k].t <= iv.end}
First(S) == CHOOSE k \in S : \A j \in S : k <= j

RECURSIVE ValueSum(_)
ValueSum(S) ==
    IF S = {} THEN 0
    ELSE LET k == CHOOSE x \in S : TRUE IN probe.features[k].f + ValueSum(S \ {k})

\* the intervals slice_features keeps, in order
Kept == SelectSeq(probe.intervals, LAMBDA iv : Qualifying(iv) # {})

StrideOf(level) ==
    IF level = "phoneme" THEN 1 ELSE IF level = "word" THEN WordStride ELSE RecordingStride

Ceil(n, k) == CHOOSE m \in 0..n : m * k >= n /\ (m = 0 \/ (m - 1) * k < n)

Times(entry) == {entry.frame_values[j].t : j \in 1..Len(entry.frame_values)}

\* the frame on the boundary two adjacent probed intervals share, if any
BoundaryFrames ==
    IF Len(probe.intervals) < 2 THEN {}
    ELSE {k \in 1..Len(probe.features) : probe.features[k].t = probe.intervals[1].end}

InclusiveSelection ==
    /\ Len(probe.out) = Len(Kept)
    /\ \A j \in 1..Len(Kept) :
         LET q == Qualifying(Kept[j])
             e == probe.out[j]
         IN  /\ e.text = Kept[j].text
             /\ e.mean = RoundMean(ValueSum(q), Cardinality(q))
             /\ probe.level = "phoneme" =>
                  /\ Len(e.frame_values) = Cardinality(q)
                  /\ \A i \in 1..Len(e.frame_values) :
                       e.frame_values[i] =
                         [t |-> Round6(probe.features[First(q) + i - 1].t),
                          f |-> probe.features[First(q) + i - 1].f]

BoundaryShared ==
    \A b \in BoundaryFrames :
        LET t == Round6(probe.features[b].t)
            offset == b - First(Qualifying(probe.intervals[1]))
        IN  /\ Len(probe.out) = 2
            /\ b \in Qualifying(probe.intervals[1]) \cap Qualifying(probe.intervals[2])
            /\ probe.out[2].frame_values[1].t = t
            /\ (t \in Times(probe.out[1])) <=> (offset % StrideOf(probe.level) = 0)

\* C7 (amended): slice_features selects for an interval exactly the frames
\* with start <= t <= end, both bounds inclusive: the mean is taken over
\* exactly those frames at every level and the phoneme-level frame series
\* holds exactly those frames.  A frame on the boundary two adjacent intervals
\* share is therefore counted in the mean of both and is the first row of the
\* later interval's series; it is in the earlier interval's series exactly
\* when its offset in that slice is a multiple of the level's stride (always,
\* at phoneme level).
C7_InclusiveSlice == probe.called => (InclusiveSelection /\ BoundaryShared)

\* C7 (as claimed): the boundary frame is in the frame series of both
\* intervals, at whatever level.
C7_BoundaryInBothSeries ==
    probe.called =>
        \A b \in BoundaryFrames :
            /\ Len(probe.out) = 2
            /\ Round6(probe.features[b].t) \in Times(probe.out[1])
            /\ Round6(probe.features[b].t) \in Times(probe.out[2])

\* two phoneme intervals sharing a boundary frame, sliced
C7_Witness ==
    /\ probe.called /\ probe.level = "phoneme" /\ BoundaryFrames # {}
    /\ Len(probe.out) = 2
    /\ Len(probe.out[1].frame_values) > 1
    /\ probe.out[1].frame_values[Len(probe.out[1].frame_values)]
         = probe.out[2].frame_values[1]

\* C8: an interval whose slice has N qualifying frames is stored with N rows
\* at phoneme level, ceil(N/5) at word level and ceil(N/20) at recording
\* level; row i of the series is the frame at offset (i - 1) * stride of the
\* slice, so the first row is the interval's first qualifying frame.
C8_DownsamplingStride ==
    probe.called =>
        /\ Len(probe.out) = Len(Kept)
        /\ \A j \in 1..Len(Kept) :
             LET q == Qualifying(Kept[j])
                 rows == probe.out[j].frame_values
                 k == StrideOf(probe.level)
             IN  /\ Len(rows) = Ceil(Cardinality(q), k)
                 /\ \A i \in 1..Len(rows) :
                      rows[i] = [t |-> Round6(probe.features[First(q) + (i - 1) * k].t),
                                 f |-> probe.features[First(q) + (i - 1) * k].f]

\* a slice of more than 20 frames at recording level: two rows are kept
C8_Witness ==
    /\ probe.called /\ probe.level = "recording"
    /\ Len(probe.out) = 1
    /\ Cardinality(Qualifying(probe.intervals[1])) > RecordingStride
    /\ Len(probe.out[1].frame_values) = 2

\* ------------------------------------------------------------------ C11
\* the documents a collection of the snapshot held for one recording
LevelIndex(analysis_level) ==
    IF analysis_level = "recording" THEN 1 ELSE IF analysis_level = "word" THEN 2 ELSE 3
DocsAtCall(analysis_level, recording_id) ==
    Find(probe.at[LevelIndex(analysis_level)], recording_id)

\* C11 (as claimed): get_features_for_recordings(ids, level) maps each id that
\* has documents at the level to one entry per stored document of that level,
\* each entry carrying that document's own stored frame series; ids without
\* documents at the level are absent from the mapping.
C11_StoredSeriesPerDocument ==
    (probe.op = "get_features_for_recordings" /\ probe.arg \in Levels) =>
        \A id \in Range(probe.ids) :
            LET docs == DocsAtCall(probe.arg, id)
            IN  IF docs = <<>> THEN id \notin DOMAIN probe.out
                ELSE /\ id \in DOMAIN probe.out
                     /\ Len(probe.out[id]) = Len(docs)
                     /\ \A i \in 1..Len(docs) :
                            probe.out[id][i].frame_values = docs[i].frame_values

\* ------------------------------------------------------------------ C14
VowelSymbols == {"i", "e", "{", "y", "u", "o", "a", "2", "7"}
\* every allow-listed symbol is one of these characters, once or doubled
HasVowelSymbol(text) ==
    \E k \in 1..Len(Chars(lower(text))) : Chars(lower(text))[k] \in VowelSymbols

\* the identifiers the call asks for, as values of the field
Asked ==
    IF probe.arg = "recording_id" THEN Range(probe.ids)
    ELSE {probe.ids[k].oid : k \in {j \in 1..Len(probe.ids) : probe.ids[j].hex}}

\* the phoneme documents the call's query matches
AskedPhonemes == {i \in 1..Len(probe.at[3]) : FieldOf(probe.at[3][i], probe.arg) \in Asked}

EntryFields == {"Phoneme", "F1", "F2", "Recording", "Word", "start", "end", "duration"}

IsEntryOf(entry, doc) ==
    /\ DOMAIN entry = EntryFields
    /\ entry.Phoneme = lower(doc.text)
    /\ entry.F1 = doc.mean /\ entry.F2 = doc.mean
    /\ entry.Recording = doc.recording_id
    /\ entry.Word = WordTextOf(doc)
    /\ entry.start = doc.start /\ entry.end = doc.end /\ entry.duration = doc.duration

ReturnedUnderOwnKey(doc) ==
    /\ FieldOf(doc, probe.arg) \in DOMAIN probe.out
    /\ \E j \in 1..Len(probe.out[FieldOf(doc, probe.arg)]) :
           IsEntryOf(probe.out[FieldOf(doc, probe.arg)][j], doc)

\* C14: get_vowels(ids, field) returns a phoneme document whose field value is
\* in ids if and only if an allow-listed vowel symbol is a substring of its
\* lower-cased text; every returned entry is grouped under the document's value
\* of field and carries only the F1/F2 means, word text, recording id and
\* timing of one such document.
C14_VowelSubstringFilter ==
    probe.op = "get_vowels" =>
        /\ \A i \in AskedPhonemes :
               ReturnedUnderOwnKey(probe.at[3][i]) <=> HasVowelSymbol(probe.at[3][i].text)
        /\ \A key \in DOMAIN probe.out :
               \A j \in 1..Len(probe.out[key]) :
                   \E i \in AskedPhonemes :
                       /\ FieldOf(probe.at[3][i], probe.arg) = key
                       /\ HasVowelSymbol(probe.at[3][i].text)
                       /\ IsEntryOf(probe.out[key][j], probe.at[3][i])
        /\ \A key \in DOMAIN probe.out :
               Len(probe.out[key]) =
                   Cardinality({i \in AskedPhonemes :
                                   /\ FieldOf(probe.at[3][i], probe.arg) = key
                                   /\ HasVowelSymbol(probe.at[3][i].text)})

\* a call that matched a consonant, which it left out, a one-symbol vowel, an
\* upper-case vowel and a vowel inside a longer label, which it returned
C14_Witness ==
    /\ probe.op = "get_vowels"
    /\ \E i \in AskedPhonemes :
           probe.at[3][i].text = "p" /\ ~ReturnedUnderOwnKey(probe.at[3][i])
    /\ \A t \in {"i", "I", "t2"} :
           \E i \in AskedPhonemes :
               probe.at[3][i].text = t /\ ReturnedUnderOwnKey(probe.at[3][i])

\* ------------------------------------------------------------------ C12
IdsIn(list) == [j \in 1..Len(list) |-> list[j]._id]

\* the fetched document a returned document was made from
SourceOf(rec_id, returned) ==
    probe.fetched[rec_id][CHOOSE i \in 1..Len(probe.fetched[rec_id]) :
                              probe.fetched[rec_id][i]._id = returned._id]

ProjectedFrom(returned, source) ==
    /\ returned.mean = SelectSeq(source.mean,
                                 LAMBDA kv : kv[1] \in probe.selections.features)
    /\ Len(returned.frame_values) = Len(source.frame_values)
    /\ \A k \in 1..Len(source.frame_values) :
           /\ returned.frame_values[k][1] = source.frame_values[k][1]
           /\ Len(returned.frame_values[k][2]) = Len(returned.mean)
           /\ \A p \in 1..Len(returned.mean) :
                  \E i \in 1..Len(source.mean) :
                      /\ Keys(source.mean)[i] = Keys(returned.mean)[p]
                      /\ returned.frame_values[k][2][p] = source.frame_values[k][2][i]

\* C12: with a non-empty feature selection every returned document has its
\* mean restricted to the selected names and, in every frame, the values at
\* the positions those names have in the document's own mean-key ordering, in
\* that ordering; the frames and their timestamps are unchanged, also when
\* documents differ in their column sets.
C12_FeatureProjection ==
    (probe.called /\ probe.selections.features # {}) =>
        \A rec_id \in DOMAIN probe.out :
            \A j \in 1..Len(probe.out[rec_id]) :
                ProjectedFrom(probe.out[rec_id][j], SourceOf(rec_id, probe.out[rec_id][j]))

\* two documents of one recording with different column orderings, both with
\* frames, projected to the same two names
C12_Witness ==
    /\ probe.called
    /\ probe.selections.features = {"c", "a"}
    /\ "r1" \in DOMAIN probe.out
    /\ \E i, j \in 1..Len(probe.out["r1"]) :
           /\ Keys(probe.out["r1"][i].mean) = <<"a", "c">>
           /\ Keys(probe.out["r1"][j].mean) = <<"c", "a">>
           /\ probe.out["r1"][i].frame_values # <<>>
           /\ probe.out["r1"][j].frame_values # <<>>
           /\ Len(SourceOf("r1", probe.out["r1"][i]).mean) = 3

\* ------------------------------------------------------------------ C13
ItemSelectionApplies ==
    probe.selections.analysis_level # "recording" /\ probe.selections.items # {}

SelectedOf(rec_id) ==
    SelectSeq(probe.fetched[rec_id], LAMBDA f : f._id \in probe.selections.items)

\* C13: at word or phoneme level with a non-empty item selection the result
\* holds exactly the fetched documents whose identifier is selected, in their
\* fetched order, and no recording left without a document; at recording
\* level or with an empty selection no document is removed.
C13_ItemFilter ==
    probe.called =>
        IF ItemSelectionApplies
        THEN /\ DOMAIN probe.out =
                    {r \in DOMAIN probe.fetched : SelectedOf(r) # <<>>}
             /\ \A r \in DOMAIN probe.out :
                    /\ IdsIn(probe.out[r]) = IdsIn(SelectedOf(r))
                    /\ probe.selections.features = {} => probe.out[r] = SelectedOf(r)
        ELSE /\ DOMAIN probe.out = DOMAIN probe.fetched
             /\ \A r \in DOMAIN probe.out :
                    /\ IdsIn(probe.out[r]) = IdsIn(probe.fetched[r])
                    /\ probe.selections.features = {} => probe.out[r] = probe.fetched[r]

\* a selection that kept one document of r1, removed another and left r2
\* with none
C13_Witness ==
    /\ probe.called /\ ItemSelectionApplies
    /\ DOMAIN probe.fetched = {"r1", "r2"}
    /\ DOMAIN probe.out = {"r1"}
    /\ Len(probe.fetched["r1"]) > Len(probe.out["r1"])

\* ------------------------------------------------------------------ C15
Contributes(item) ==
    \E k \in 1..Len(item.features) : item.features[k].mean # <<>>

\* the last document of the recording that defines the feature
LastDefining(item, name) ==
    LET defining == {k \in 1..Len(item.features) :
                        \E i \in 1..Len(item.features[k].mean) :
                            item.features[k].mean[i][1] = name}
    IN  CHOOSE k \in defining : \A other \in defining : other <= k

\* C15 (as claimed): prepare_feature_matrix has exactly one row per recording
\* that contributes at least one feature, in the iteration order of the
\* mapping; each cell holds the value of the last document of the recording
\* that defines the feature; recordings contributing no feature are dropped.
C15_OneRowPerContributor ==
    (probe.called /\ probe.features_dict # <<>>) =>
        LET contributors == SelectSeq(probe.features_dict, Contributes)
        IN  /\ probe.out.raised = "none"
            /\ probe.out.index =
                   [i \in 1..Len(contributors) |-> contributors[i].recording_id]
            /\ \A i \in 1..Len(contributors) :
                   \A j \in 1..Len(probe.out.columns) :
                       LET name == probe.out.columns[j]
                           item == contributors[i]
                       IN  (\E k \in 1..Len(item.features) :
                               \E c \in 1..Len(item.features[k].mean) :
                                   item.features[k].mean[c][1] = name)
                           => probe.out.values[i][j] =
                                 Lookup(item.features[LastDefining(item, name)].mean, name)

\* ------------------------------------------------------------------ C16
\* C16: normalize_and_reduce returns the None sentinel, without raising,
\* exactly when the matrix has zero rows or zero feature columns; otherwise it
\* asks PCA for min(n_components, feature_count) components, at most
\* min(10, feature_count) with the default; cluster returns None whenever its
\* input is None.
C16_NoneSentinel ==
    (probe.called /\ probe.call = "normalize_and_reduce") =>
        LET X == probe.out.X_pca
            rows == Len(probe.df.index)
            feature_count == probe.df.ncols
        IN  /\ X.result = "None" <=> (rows = 0 \/ feature_count = 0)
            /\ X.result # "None" =>
                   /\ X.n_components <= probe.n_components
                   /\ X.n_components <= feature_count
                   /\ X.n_components \in {probe.n_components, feature_count}
                   /\ probe.n_components = 10 =>
                          (X.n_components <= 10 /\ X.n_components <= feature_count)
            /\ X.result = "None" => probe.out.labels = "None"

\* the default of ten components asked of a matrix with more than ten
\* columns, and of rows enough for PCA to run
C16_Witness ==
    /\ probe.called /\ probe.call = "normalize_and_reduce"
    /\ probe.n_components = 10 /\ probe.df.ncols > 10
    /\ probe.out.X_pca.result = "ok" /\ probe.out.X_pca.n_components = 10

\* ------------------------------------------------------------------ C17
\* the target is no row, or PCA or clustering cannot be performed
DataInsufficient ==
    \/ \A i \in 1..Len(probe.df.index) : probe.df.index[i] # probe.target
    \/ Len(probe.df.index) = 0
    \/ probe.df.ncols = 0
    \/ Len(probe.df.index) < n_clusters

\* C17: analyze_clusters fails with ValueError, and with no other failure,
\* whenever the target is not a row of the matrix or PCA or clustering could
\* not be performed (zero rows, zero features, fewer rows than clusters).
C17_DataInsufficiency ==
    (probe.called /\ probe.call = "analyze_clusters") =>
        /\ probe.out.raised \in {"none", "ValueError"}
        /\ DataInsufficient => probe.out.raised = "ValueError"

\* a matrix PCA and k-means can handle, asked about a target that is no row
C17_Witness ==
    /\ probe.called /\ probe.call = "analyze_clusters"
    /\ Len(probe.df.index) >= n_clusters /\ probe.df.ncols > 0 /\ ~probe.df.nan
    /\ Len(probe.df.index) >= probe.df.ncols
    /\ probe.target = AbsentTarget
    /\ probe.out.raised = "ValueError"

\* ------------------------------------------------------------------ C18
\* the row the target has in the matrix of the call, and the other rows
TargetRow == IndexOf(probe.df, probe.target)
NonTargetRows == {i \in 1..Len(probe.df.index) : i # TargetRow}

\* the value a row is ranked by in the call made, and whether the ranking
\* puts the greater value first
RankedBy(i) ==
    IF probe.method = "cosine" THEN probe.df.sim_row[i]
    ELSE IF probe.method = "pca_cosine_distance" THEN Distance(probe.df.pca_sim_row[i])
    ELSE probe.df.pca_sim_row[i]
Descending == probe.method # "pca_cosine_distance"
NotAfter(a, b) == IF Descending THEN a >= b ELSE a <= b

\* the rows the returned pairs stand for
ListedRows ==
    {i \in NonTargetRows :
        \E k \in 1..Len(probe.out.similar_list) :
            probe.out.similar_list[k][1] = probe.df.index[i]}

RankingCall ==
    /\ probe.called
    /\ probe.call \in {"analyze_clusters", "analyze_scores"}
    /\ TargetRow # None

\* C18: for a target present in the matrix, analyze_clusters and
\* analyze_scores('cosine') return the first min(top_n, rows - 1) non-target
\* rows in descending order of similarity, and
\* analyze_scores('pca_cosine_distance') the first min(top_n, rows - 1)
\* non-target rows in ascending order of distance; the target is never in its
\* own result, and another method name is rejected with an error.
C18_Ranking ==
    RankingCall =>
        LET similar_list == probe.out.similar_list
            rows == Len(probe.df.index)
        IN  /\ probe.method = "euclidean" => probe.out.raised = "ValueError"
            /\ probe.method = "cosine" => probe.out.raised = "none"
            /\ probe.out.raised = "none" =>
                   /\ Len(similar_list) = Min(probe.top_n, rows - 1)
                   /\ \A k \in 1..Len(similar_list) :
                          /\ similar_list[k][1] # probe.target
                          /\ \E i \in NonTargetRows :
                                 /\ similar_list[k][1] = probe.df.index[i]
                                 /\ similar_list[k][2] = RankedBy(i)
                   /\ Cardinality(ListedRows) = Len(similar_list)
                   /\ \A k \in 1..(Len(similar_list) - 1) :
                          NotAfter(similar_list[k][2], similar_list[k + 1][2])
                   /\ \A i \in NonTargetRows \ ListedRows :
                          \A k \in 1..Len(similar_list) :
                              NotAfter(similar_list[k][2], RankedBy(i))

\* a call that ranked more rows than it was asked to return, of different
\* values
C18_Witness ==
    /\ RankingCall /\ probe.out.raised = "none"
    /\ probe.method = "pca_cosine_distance"
    /\ probe.top_n = 2 /\ Len(probe.df.index) = 4 /\ TargetRow = 2
    /\ Len(probe.out.similar_list) = 2
    /\ probe.out.similar_list[1][2] < probe.out.similar_list[2][2]
    /\ \E i \in NonTargetRows \ ListedRows : RankedBy(i) > probe.out.similar_list[2][2]

\* ------------------------------------------------------------------ C19
\* the position a recording has in the returned list
PositionOf(recording_id) ==
    CHOOSE k \in 1..Len(probe.out.similar_list) :
        probe.out.similar_list[k][1] = recording_id

\* C19: two non-target recordings of equal similarity, or of equal distance,
\* to the target come in the ranked result in their row order of the matrix,
\* in the descending rankings and in the ascending one.
C19_StableTies ==
    (RankingCall /\ probe.out.raised = "none") =>
        \A i \in ListedRows : \A j \in ListedRows :
            (i < j /\ RankedBy(i) = RankedBy(j)) =>
                PositionOf(probe.df.index[i]) < PositionOf(probe.df.index[j])

\* a tie ranked: two recordings of one score returned, with a recording of
\* another score between them in the matrix
TieRanked(method) ==
    /\ RankingCall /\ probe.out.raised = "none"
    /\ probe.method = method
    /\ \E i \in ListedRows : \E j \in ListedRows :
           /\ i + 1 < j /\ RankedBy(i) = RankedBy(j)
           /\ \E m \in NonTargetRows : i < m /\ m < j /\ RankedBy(m) # RankedBy(i)

C19_Witness == TieRanked("cosine")

\* ------------------------------------------------------------------ C20
\* the recordings of a ranked list, in its order
Recordings(pairs) == [k \in 1..Len(pairs) |-> pairs[k][1]]

\* a distance ranking that returned, of a matrix whose PCA image keeps the
\* similarities
DistanceRankingKept ==
    /\ RankingCall /\ probe.out.raised = "none"
    /\ probe.method = "pca_cosine_distance"
    /\ probe.df.pca_sim_row = probe.df.sim_row

\* what analyze_scores(method='cosine') returns for the same target, matrix
\* and top_n
CosineRanking ==
    analyze_scores(probe.target, probe.df, probe.top_n, "cosine").similar_list

\* two non-target recordings of different similarity have one distance
DistancesCollapse ==
    \E i \in NonTargetRows : \E j \in NonTargetRows :
        /\ probe.df.sim_row[i] # probe.df.sim_row[j]
        /\ Distance(probe.df.sim_row[i]) = Distance(probe.df.sim_row[j])

\* C20 as stated: the result of analyze_scores('pca_cosine_distance'),
\* converted by similarity = 1 - distance, has the recordings in the order of
\* analyze_scores('cosine') whenever the similarity values coincide, tied
\* recordings included.
C20_DistanceInversion ==
    DistanceRankingKept =>
        Recordings(ConvertedSimilarities(probe.out.similar_list)) =
            Recordings(CosineRanking)

\* C20, amended: the converted distance ranking has the recordings in the
\* order of the cosine ranking, tied recordings included, unless two
\* recordings of different similarity have the same computed distance
\* 1 - similarity.
C20_DistanceInversionExact ==
    (DistanceRankingKept /\ ~DistancesCollapse) =>
        /\ Recordings(ConvertedSimilarities(probe.out.similar_list)) =
               Recordings(CosineRanking)
        /\ Recordings(probe.out.similar_list) = Recordings(CosineRanking)

\* a distance ranking with a tie and with different scores, cut by top_n,
\* that converts to the cosine ranking
C20_Witness ==
    /\ DistanceRankingKept /\ ~DistancesCollapse
    /\ TieRanked("pca_cosine_distance")
    /\ Len(probe.out.similar_list) < Cardinality(NonTargetRows)
    /\ Recordings(ConvertedSimilarities(probe.out.similar_list)) =
           Recordings(CosineRanking)

\* ------------------------------------------------------------------ C21
\* the exclusion set as the claim lists it
ExclusionSet == {"<sil>", "SIL", ".sil", ".noise", ""}

\* the positions of the input whose trimmed text is not excluded, and the
\* position of the input the j-th of them has
KeptPositions ==
    {i \in 1..Len(probe.arg) : strip(probe.arg[i].text) \notin ExclusionSet}
KeptPosition(j) ==
    CHOOSE i \in KeptPositions : Cardinality({k \in KeptPositions : k <= i}) = j

\* C21: clean_intervals returns, in input order, exactly the input intervals
\* whose whitespace-trimmed text is not in the exclusion set; the input list
\* and its intervals are left as they were, and cleaning the result again
\* gives the same result.
C21_CleanIntervals ==
    /\ probe.intervals = probe.arg
    /\ probe.calls >= 1 =>
           /\ Len(probe.out) = Cardinality(KeptPositions)
           /\ \A j \in 1..Len(probe.out) : probe.out[j] = probe.arg[KeptPosition(j)]
    /\ probe.calls = 2 => probe.again = probe.out

\* a list cleaned twice that lost a label excluded only once trimmed and one
\* excluded as it stands, and kept labels around them, one with whitespace
C21_Witness ==
    /\ probe.calls = 2
    /\ Len(probe.arg) = 3 /\ Len(probe.out) = 1
    /\ probe.arg[1].text = " SIL " /\ probe.arg[2].text = "a " /\ probe.arg[3].text = ""
    /\ probe.out = <<probe.arg[2]>>

\* ------------------------------------------------------------------ C22
\* every entry of the tier has a label that cleaning removes
CleanedEmpty(tier) ==
    \A i \in 1..Len(tier) : strip(tier[i].text) \in ExclusionSet
EmptiedTier(id) ==
    files[id].tg = "ok"
    /\ (CleanedEmpty(files[id].words) \/ CleanedEmpty(files[id].phonemes))

\* C22: when cleaning leaves the words tier or the phonemes tier empty,
\* process_single_recording returns without raising, feature extraction is
\* not invoked, and no document is inserted into recordings, words or
\* phonemes.
C22_MissingTier ==
    \A c \in Callers :
        (cur[c].id # "" /\ EmptiedTier(cur[c].id)) =>
            /\ ~cur[c].extracted
            /\ pc[c] \in {"idle", "exists", "parse"}
            /\ (pc[c] = "idle" => cur[c].result = "missing_tier")
            /\ ~HasRecording(recordings, cur[c].id)
            /\ ~HasRecording(words, cur[c].id)
            /\ ~HasRecording(phonemes, cur[c].id)

\* the second call for a pair whose words tier is kept and whose phonemes
\* tier holds nothing but labels that strip to silence has returned
C22_Witness ==
    /\ opsLeft = 0 /\ pc[1] = "idle"
    /\ cur[1].id = "r1" /\ cur[1].parsed /\ cur[1].result = "missing_tier"
    /\ ~CleanedEmpty(files["r1"].words)
    /\ Len(files["r1"].phonemes) = 2 /\ CleanedEmpty(files["r1"].phonemes)
    /\ store = <<<<>>, <<>>, <<>>>>

\* ------------------------------------------------------------------ C23
\* the base name a path is grouped under, and where a base name is first
\* seen in the argument of the call
BaseOf(path) == lower(strip(path.stem))
Bases == {BaseOf(probe.files[i]) : i \in 1..Len(probe.files)}
FirstSeen(base) ==
    CHOOSE i \in 1..Len(probe.files) :
        /\ BaseOf(probe.files[i]) = base
        /\ \A j \in 1..(i - 1) : BaseOf(probe.files[j]) # base
HasExt(base, ext) ==
    \E i \in 1..Len(probe.files) :
        BaseOf(probe.files[i]) = base /\ lower(probe.files[i].ext) = ext
CompleteBases == {b \in Bases : HasExt(b, ".wav") /\ HasExt(b, ".textgrid")}

\* seq lists the members of set once each, in first-seen order
ListsInOrder(seq, set) ==
    /\ {seq[k] : k \in 1..Len(seq)} = set
    /\ Len(seq) = Cardinality(set)
    /\ \A j \in 1..Len(seq) : \A k \in 1..Len(seq) :
           j < k => FirstSeen(seq[j]) < FirstSeen(seq[k])

ImportEnded == probe.phase \in {"returned", "raised"}

\* C23: within import_files a failure of one recording never keeps the
\* remaining complete pairs from being processed: every complete pair is
\* attempted exactly once and import_files returns normally.
C23_BatchContinues ==
    ImportEnded =>
        /\ probe.phase = "returned"
        /\ \A b \in CompleteBases :
               Cardinality({k \in 1..Len(probe.attempts) : probe.attempts[k] = b}) = 1

\* ------------------------------------------------------------------ C30
\* C30: import_files groups the paths by trimmed, lower-cased base name;
\* it calls process_single_recording exactly once for each base name with
\* both a .wav and a .textgrid path and for no other, and returns exactly
\* the base names missing either file, in first-seen order.
C30_PairingAndReport ==
    ImportEnded =>
        /\ ListsInOrder(probe.attempts, CompleteBases)
        /\ probe.phase = "returned"
        /\ ListsInOrder(probe.out, Bases \ CompleteBases)

\* the pairing and the report of the calls that do return
ReturnedImportPairs ==
    probe.phase = "returned" =>
        /\ ListsInOrder(probe.attempts, CompleteBases)
        /\ ListsInOrder(probe.out, Bases \ CompleteBases)

C25_WordTextStored ==
    \A i \in 1..Len(phonemes) :
        /\ "word_text" \in DOMAIN phonemes[i]
        /\ \A j \in 1..Len(words) :
               words[j]._id = phonemes[i].parent_id =>
                   WordTextOf(phonemes[i]) = words[j].text

\* ------------------------------------------------------------------ C26
\* the timestamps of a stored frame series
Timestamps(doc) == [k \in 1..Len(doc.frame_values) |-> doc.frame_values[k].t]

SeriesInOrderAndInside(doc) ==
    LET ts == Timestamps(doc)
    IN  /\ \A k \in 1..(Len(ts) - 1) : ts[k] < ts[k + 1]
        /\ \A k \in 1..Len(ts) : doc.start <= ts[k] /\ ts[k] <= doc.end

\* C26: in every stored document, at each level, the timestamps of the
\* frame series are strictly increasing and lie within [start, end] of the
\* document, the feature matrix being indexed by increasing frame start time.
C26_SeriesWithinInterval ==
    /\ \A i \in 1..Len(recordings) : SeriesInOrderAndInside(recordings[i])
    /\ \A i \in 1..Len(words) : SeriesInOrderAndInside(words[i])
    /\ \A i \in 1..Len(phonemes) : SeriesInOrderAndInside(phonemes[i])

\* a whole hierarchy stored with series of several frames at each level, the
\* words' outer bounds off the microsecond grid and a frame on the phonemes'
\* shared boundary
C26_Witness ==
    /\ Len(recordings) = 1 /\ Len(words) = 2 /\ Len(phonemes) = 2
    /\ Len(recordings[1].frame_values) >= 2
    /\ Len(words[1].frame_values) >= 2 /\ Len(words[2].frame_values) >= 2
    /\ Len(phonemes[1].frame_values) >= 3 /\ Len(phonemes[2].frame_values) >= 3
    /\ files["r1"].words[1].start % Tick # 0
    /\ files["r1"].words[2].end % Tick # 0
    /\ phonemes[1].frame_values[Len(phonemes[1].frame_values)].t
           = phonemes[2].frame_values[1].t

\* ------------------------------------------------------------------ C27
\* the ends of the words of a pair that cleaning keeps, and the greatest
KeptWordEnds(id) ==
    {files[id].words[i].end : i \in {k \in 1..Len(files[id].words) :
                                       strip(files[id].words[k].text) \notin ExclusionSet}}
MaxWordEnd(id) == CHOOSE e \in KeptWordEnds(id) : \A x \in KeptWordEnds(id) : x <= e

\* the number of frames of the pair's feature matrix that start in [0, e];
\* they are the first so many
FramesUpTo(id, e) ==
    Cardinality({k \in 1..files[id].nframes : 0 <= FrameAt(k - 1).t /\ FrameAt(k - 1).t <= e})

RECURSIVE SumOfFirst(_)
SumOfFirst(m) == IF m = 0 THEN 0 ELSE FrameAt(m - 1).f + SumOfFirst(m - 1)

\* C27: the recording document has start 0, and end and duration equal to
\* the maximum end over the cleaned words; its mean is taken over exactly
\* the frames in [0, that maximum] and its frame series from exactly those
\* frames (every RecordingStride-th of them, from the first).
C27_RecordingInterval ==
    \A i \in 1..Len(recordings) :
        LET doc == recordings[i]
            e == MaxWordEnd(doc.recording_id)
            m == FramesUpTo(doc.recording_id, e)
        IN  /\ doc.text = "recording" /\ doc.parent_id = None
            /\ doc.start = 0 /\ doc.end = e /\ doc.duration = e
            /\ m > 0
            /\ doc.mean = RoundMean(SumOfFirst(m), m)
            /\ Len(doc.frame_values) = (m + RecordingStride - 1) \div RecordingStride
            /\ \A j \in 1..Len(doc.frame_values) :
                   doc.frame_values[j] =
                       [t |-> Round6(FrameAt((j - 1) * RecordingStride).t),
                        f |-> FrameAt((j - 1) * RecordingStride).f]

\* the recording of two words, the second ending off the microsecond grid
\* and after the last frame, stored with a series of two frames
C27_Witness ==
    /\ pc[1] = "idle" /\ cur[1].result = "processed"
    /\ Len(recordings) = 1 /\ Len(files["r1"].words) = 2
    /\ recordings[1].end = files["r1"].words[2].end
    /\ recordings[1].end % Tick # 0
    /\ recordings[1].end > files["r1"].words[1].end
    /\ Len(recordings[1].frame_values) = 2

\* ------------------------------------------------------------------ C28
\* C28: at every intermediate state of ingestions and deletions made one at
\* a time, a deletion that fails part-way included, every word and phoneme
\* document has the recording_id of a document present in recordings.
C28_NoOrphans ==
    /\ \A i \in 1..Len(words) : HasRecording(recordings, words[i].recording_id)
    /\ \A i \in 1..Len(phonemes) : HasRecording(recordings, phonemes[i].recording_id)

\* ------------------------------------------------------------------ C29
\* insert_data of caller c fails in this step, past the insert into
\* recordings, and the call ends
FailsPastRecording(c) ==
    /\ pc[c] \in {"ins_words", "ins_ph"}
    /\ pc'[c] = "idle"
    /\ cur'[c].result # "processed"

\* a call for an id that has a recordings document makes its existence check
LaterCall(c) == pc[c] = "exists" /\ CountFor(recordings, cur[c].id) >= 1

\* C29: when insert_data fails after the recording document was inserted,
\* process_single_recording swallows the error and the recording document
\* stays, without the documents the failed insert would have added; every
\* later call for the id returns at the existence check and adds nothing.
C29_NotAllOrNothing ==
    [][\A c \in Callers :
          /\ FailsPastRecording(c) =>
                 /\ cur'[c].result = "error"
                 /\ store' = store
                 /\ CountFor(recordings', cur[c].id) >= 1
                 /\ CountFor(phonemes', cur[c].id) = 0
                 /\ pc[c] = "ins_words" => CountFor(words', cur[c].id) = 0
          /\ LaterCall(c) =>
                 /\ pc'[c] = "idle" /\ cur'[c].result = "exists"
                 /\ store' = store]_vars

\* a pair whose word slices are all empty was ingested and its insert of
\* words failed; the next call for it has returned at the existence check,
\* the recording document still without words and phonemes
C29_Witness ==
    /\ opsLeft = MaxCalls - 2 /\ pc[1] = "idle"
    /\ cur[1].result = "exists"
    /\ WordDocs(cur[1].id, FileFeatures(cur[1].id), CleanWords(cur[1].id)) = <<>>
    /\ CountFor(recordings, cur[1].id) = 1
    /\ CountFor(words, cur[1].id) = 0 /\ CountFor(phonemes, cur[1].id) = 0

====
